
---- MODULE Spec2Model ----
(***************************************************************************)
(* brainfeed: a builder (Context) that emits tape-machine code for         *)
(* arithmetic, logic and control-flow primitives over stack-allocated      *)
(* cells, and the minibf tape machine (VM) that runs the emitted code.     *)
(*                                                                         *)
(* The Context is modelled as a record.  A single-cell method of Context   *)
(* is an operator from a context (and its arguments) to the context after  *)
(* the call; a method built from other methods is the sequence of calls it *)
(* makes, executed one call per step.  The VM is modelled step by step:    *)
(* one action per machine operation.  A driver, shaped after the `run`     *)
(* helper of the tests, allocates cells, gives them their initial values,  *)
(* calls one primitive and lets the VM run the emitted code.               *)
(***************************************************************************)
EXTENDS Integers, Sequences, FiniteSets, TLC

VARIABLES
    code,            \* Context.code: the emitted program, one byte per element
    addr,            \* Context.addr: the cursor
    stack_pointers,  \* Context.stack_pointers: per slot, the Arcs its Weak upgrades to
    known_values,    \* Context.known_values: per address, None or Some(v)
    wrapped,         \* a known value overflowed u8 and wrapped (overflow checks off)
    panicked,        \* an assert_ne! of a primitive failed
    mem,             \* VM.mem, kept sparse: the cells written so far (others are 0)
    loop_stack,      \* VM.loop_stack
    ip,              \* VM.ip
    dp,              \* VM.dp
    op_count,        \* VM.op_count
    unclosed_brackets, \* loop_start: the counter of its scan, 0 outside the scan
    todo,            \* the calls of Context methods still to be made, in order
    pc,              \* driver position: "setup", "run", "ready", "emit", "test", "done", "panic",
                     \* "error"
    inits,           \* driver: per allocated cell, how it was initialised
    calls,           \* driver: the number of primitives called so far
    call,            \* driver: the last primitive call made
    pre,             \* driver: VM.mem when that call was made
    pre_ctx          \* driver: the Context when that call was made

ctxvars == <<code, addr, stack_pointers, known_values, wrapped, panicked>>
vmvars  == <<mem, loop_stack, ip, dp, op_count, unclosed_brackets>>
drivervars == <<inits, calls, call, pre, pre_ctx>>
vars    == <<code, addr, stack_pointers, known_values, wrapped, panicked,
             mem, loop_stack, ip, dp, op_count, unclosed_brackets, todo, pc, inits, calls, call, pre, pre_ctx>>

----------------------------------------------------------------------------
(* Program constants *)

MAX_STEPS == 1000000
MEM_SIZE == 30000
U8Modulus == 256

(* Bounds of the model *)

\* cell values used as inputs are 0..MaxVal and the top value 255
MaxVal == 2
\* mul is only run on inputs whose product is at most MaxProduct
MaxProduct == 510
\* the driver calls at most MaxCalls primitives one after the other
MaxCalls == 2
\* seek is called on the addresses -MaxAddr..MaxAddr
MaxAddr == 2
MaxSlots == 3
\* a run of the VM over a byte that is not an operation is followed for
\* MaxSteps iterations
MaxSteps == 8

U8Max == U8Modulus - 1
Vals == (0..MaxVal) \cup {U8Max}
Bools == {0, 1}

----------------------------------------------------------------------------
(* Option<u8> *)

None == <<>>
Some(v) == <<v>>

\* wrapping u8 arithmetic
wrapping(n) == n % U8Modulus

abs(n) == IF n < 0 THEN -n ELSE n

\* str::repeat
repeat(s, n) == [i \in 1..n |-> s]

----------------------------------------------------------------------------
(* Context: the state and the single-cell primitives *)

Context_new ==
    [code |-> <<>>, addr |-> 0, stack_pointers |-> <<>>, known_values |-> <<>>,
     wrapped |-> FALSE, panicked |-> FALSE]

Context_with_addr(a) == [Context_new EXCEPT !.addr = a]

emit(c, s) == [c EXCEPT !.code = @ \o s]

forget_known_values(c) ==
    [c EXCEPT !.known_values = [i \in 1..Len(@) |-> None]]

value(c, ptr) ==
    IF ptr < 0 THEN None
    ELSE IF ptr + 1 <= Len(c.known_values) THEN c.known_values[ptr + 1]
    ELSE None

\* map_known_value with f = |v| v + delta, computed in u8: an overflow wraps and
\* is recorded in `wrapped`
map_known_value(c, ptr, delta) ==
    IF ptr < 0 THEN c
    ELSE IF value(c, ptr) = None THEN c
    ELSE LET r == value(c, ptr)[1] + delta IN
         [c EXCEPT !.known_values[ptr + 1] = Some(wrapping(r)),
                   !.wrapped = @ \/ r < 0 \/ r > U8Max]

assume(c, ptr, v) ==
    IF ptr < 0 THEN c
    ELSE LET n == Len(c.known_values)
             grown == IF ptr + 1 > n
                      THEN c.known_values \o [i \in 1..(ptr + 1 - n) |-> None]
                      ELSE c.known_values
         IN [c EXCEPT !.known_values = [grown EXCEPT ![ptr + 1] = Some(v)]]

bool_as_u8(b) == IF b THEN 1 ELSE 0

assume_bool(c, ptr, b) == assume(c, ptr, bool_as_u8(b))

forget(c, ptr) ==
    IF ptr < 0 THEN c
    ELSE IF ptr + 1 <= Len(c.known_values)
         THEN [c EXCEPT !.known_values[ptr + 1] = None]
         ELSE c

\* the address stack_alloc hands out: the first slot whose Weak is dead, else a new slot
\* stack_alloc that takes the highest free slot
stack_alloc_addr_mutant(c) ==
    LET sp == c.stack_pointers
        dead == {i \in 1..Len(sp) : sp[i] = 0}
    IN IF dead # {}
       THEN (CHOOSE i \in dead : \A j \in dead : i >= j) - 1
       ELSE Len(sp)

stack_alloc_addr(c) ==
    LET sp == c.stack_pointers
        dead == {i \in 1..Len(sp) : sp[i] = 0}
    IN IF dead # {}
       THEN (CHOOSE i \in dead : \A j \in dead : i <= j) - 1
       ELSE Len(sp)

stack_alloc(c) ==
    LET a == stack_alloc_addr(c) IN
    [c EXCEPT !.stack_pointers =
        IF a < Len(@) THEN [@ EXCEPT ![a + 1] = 1] ELSE Append(@, 1)]

\* ptr.clone(), the clone being kept: one more Arc of the slot
clone(c, ptr) ==
    IF ptr >= 0 /\ ptr + 1 <= Len(c.stack_pointers)
    THEN [c EXCEPT !.stack_pointers[ptr + 1] = @ + 1]
    ELSE c

\* a Ptr is dropped: once the last Arc of the slot is gone its Weak no
\* longer upgrades
drop(c, ptr) ==
    IF ptr >= 0 /\ ptr + 1 <= Len(c.stack_pointers)
    THEN [c EXCEPT !.stack_pointers[ptr + 1] = IF @ > 0 THEN @ - 1 ELSE 0]
    ELSE c

\* seek that leaves the cursor where it was
seek_mutant(c, ptr) ==
    LET offset == ptr - c.addr
        direction == IF offset > 0 THEN ">" ELSE "<"
    IN emit(c, repeat(direction, abs(offset)))

seek(c, ptr) ==
    LET offset == ptr - c.addr
        direction == IF offset > 0 THEN ">" ELSE "<"
    IN [emit(c, repeat(direction, abs(offset))) EXCEPT !.addr = ptr]

increment(c, ptr) == map_known_value(emit(seek(c, ptr), <<"+">>), ptr, 1)

increment_by(c, ptr, amount) ==
    map_known_value(emit(seek(c, ptr), repeat("+", amount)), ptr, amount)

decrement(c, ptr) == map_known_value(emit(seek(c, ptr), <<"-">>), ptr, -1)

decrement_by(c, ptr, amount) ==
    map_known_value(emit(seek(c, ptr), repeat("-", amount)), ptr, -amount)

\* clear without the skip on a known 0, and that forgets what it knew
clear_mutant(c, ptr) ==
    forget(emit(seek(c, ptr), <<"[", "-", "]">>), ptr)

clear(c, ptr) ==
    IF value(c, ptr) = Some(0) THEN c
    ELSE assume(emit(seek(c, ptr), <<"[", "-", "]">>), ptr, 0)

set(c, ptr, v) ==
    IF value(c, ptr) = Some(v) THEN c
    ELSE increment_by(clear(seek(c, ptr), ptr), ptr, v)

\* the match is on the known value alone: the arm taken does not look at `b`
set_bool(c, ptr, b) ==
    IF value(c, ptr) = Some(0) THEN increment(c, ptr)
    ELSE IF value(c, ptr) = Some(1) THEN decrement(c, ptr)
    ELSE set(c, ptr, bool_as_u8(b))

----------------------------------------------------------------------------
(* Context: the primitives built from other primitives.                     *)
(*                                                                         *)
(* A call of a Context method is a record; a closure is the sequence of    *)
(* calls it makes.  The body of each compound method is given as the       *)
(* sequence of calls it makes, in order, when called in context c; the     *)
(* driver executes the calls one at a time (EmitStep), so every method     *)
(* reads the known values and the allocator as they are when it is called. *)
(* with_stack_alloc(f) is the call StackAlloc, the calls of f, and the     *)
(* drop of the Ptr.                                                        *)

K(op, a, b, t, body) == [op |-> op, a |-> a, b |-> b, t |-> t, body |-> body]

\* calls of the single-cell primitives, the allocator and the two halves of a loop
Clear(ptr)             == K("clear", ptr, 0, 0, <<>>)
Set(ptr, v)            == K("set", ptr, v, 0, <<>>)
SetBool(ptr, b)        == K("set_bool", ptr, bool_as_u8(b), 0, <<>>)
AssumeBool(ptr, b)     == K("assume_bool", ptr, bool_as_u8(b), 0, <<>>)
Increment(ptr)         == K("increment", ptr, 0, 0, <<>>)
Decrement(ptr)         == K("decrement", ptr, 0, 0, <<>>)
IncrementBy(ptr, n)    == K("increment_by", ptr, n, 0, <<>>)
DecrementBy(ptr, n)    == K("decrement_by", ptr, n, 0, <<>>)
StackAlloc             == K("stack_alloc", 0, 0, 0, <<>>)
Drop(ptr)              == K("drop", ptr, 0, 0, <<>>)
LoopOpen(ptr)          == K("loop_open", ptr, 0, 0, <<>>)
LoopClose(ptr)         == K("loop_close", ptr, 0, 0, <<>>)
AssertNeFailed         == K("assert_ne", 0, 0, 0, <<>>)
Seek(ptr)              == K("seek", ptr, 0, 0, <<>>)
Clone(ptr)             == K("clone", ptr, 0, 0, <<>>)

\* calls of the compound primitives
WhileNotZero(ptr, f)   == K("while_not_zero", ptr, 0, 0, f)
WhileTrue(cond, f)     == K("while_true", cond, 0, 0, f)
RepeatReverseDestructive(counter, f) == K("repeat_reverse_destructive", counter, 0, 0, f)
RepeatReverse(ptr, f)  == K("repeat_reverse", ptr, 0, 0, f)
Iff(cond, f)           == K("iff", cond, 0, 0, f)
IffDestructive(cond, f) == K("iff_destructive", cond, 0, 0, f)
IfNot(cond, f)         == K("if_not", cond, 0, 0, f)
IfNotDestructive(cond, f) == K("if_not_destructive", cond, 0, 0, f)
\* the two closures of if_else are kept as a pair
IfElse(cond, f, g)     == K("if_else", cond, 0, 0, <<f, g>>)
\* with_stack_allocN(|ctx, ptr1, .., ptrN| f): the closure f names its
\* parameters h, h + 1, .., h + N - 1
WithStackAlloc(h, f)   == K("with_stack_alloc", h, 0, 0, f)
WithStackAlloc2(h, f)  == K("with_stack_alloc2", h, 0, 0, f)
WithStackAlloc3(h, f)  == K("with_stack_alloc3", h, 0, 0, f)
WithStackAlloc4(h, f)  == K("with_stack_alloc4", h, 0, 0, f)
WithStackAlloc5(h, f)  == K("with_stack_alloc5", h, 0, 0, f)
Add(target, source)    == K("add", target, source, 0, <<>>)
Sub(target, source)    == K("sub", target, source, 0, <<>>)
Mul(target, source)    == K("mul", target, source, 0, <<>>)
Mov(source, target)    == K("mov", source, target, 0, <<>>)
Copy(source, target)   == K("copy", source, target, 0, <<>>)
Not(cond)              == K("not", cond, 0, 0, <<>>)
IsZeroDestructive(v)   == K("is_zero_destructive", v, 0, 0, <<>>)
IsZero(source, target) == K("is_zero", source, target, 0, <<>>)
EqualsAssign(source, target) == K("equals_assign", source, target, 0, <<>>)
Equals(a, b, target)   == K("equals", a, b, target, <<>>)
GreaterThanAssign(source, target) == K("greater_than_assign", source, target, 0, <<>>)
GreaterThan(a, b, target) == K("greater_than", a, b, target, <<>>)
AndAssign(source, target) == K("and_assign", source, target, 0, <<>>)
And(a, b, target)      == K("and", a, b, target, <<>>)
AndNot(a, b, target)   == K("and_not", a, b, target, <<>>)
OrAssign(source, target) == K("or_assign", source, target, 0, <<>>)
Or(a, b, target)       == K("or", a, b, target, <<>>)
NorAssign(source, target) == K("nor_assign", source, target, 0, <<>>)
Nor(a, b, target)      == K("nor", a, b, target, <<>>)
XorAssign(source, target) == K("xor_assign", source, target, 0, <<>>)
Xor(a, b, target)      == K("xor", a, b, target, <<>>)

\* the first half of while_not_zero, up to the call of the closure
loop_open(c, ptr) == forget_known_values(emit(seek(c, ptr), <<"[">>))

\* the second half of while_not_zero, after the closure returned
loop_close_mutant(c, ptr) == emit(c, <<"]">>)

loop_close(c, ptr) == emit(seek(c, ptr), <<"]">>)

\* assert_ne!(a, b) failing
assert_ne_failed(c) == [c EXCEPT !.panicked = TRUE]

while_not_zero_mutant(ptr, f) == <<LoopOpen(ptr)>> \o f

while_not_zero(ptr, f) == <<LoopOpen(ptr)>> \o f \o <<LoopClose(ptr)>>

while_true(cond, f) == <<WhileNotZero(cond, f)>>

\* repeat_reverse_destructive that decrements the counter before the body
repeat_reverse_destructive_mutant(counter, f) ==
    <<WhileNotZero(counter, <<Decrement(counter)>> \o f)>>

repeat_reverse_destructive(counter, f) ==
    <<WhileNotZero(counter, f \o <<Decrement(counter)>>)>>

\* repeat_reverse that counts on ptr itself
repeat_reverse_mutant(c, ptr, f) ==
    <<RepeatReverseDestructive(ptr, f)>>

repeat_reverse(c, ptr, f) ==
    LET counter == stack_alloc_addr(c) IN
    <<StackAlloc, Copy(ptr, counter), RepeatReverseDestructive(counter, f), Drop(counter)>>

iff(cond, f) == <<RepeatReverse(cond, f)>>

iff_destructive(cond, f) == <<RepeatReverseDestructive(cond, f)>>

\* the calls that take a closure with Ptr parameters
Scoped ==
    {"with_stack_alloc", "with_stack_alloc2", "with_stack_alloc3",
     "with_stack_alloc4", "with_stack_alloc5"}

\* the closure f called with the Ptr ptr for its parameter h (the parameters
\* of nested closures have other names)
RECURSIVE bind(_, _, _)
bind(f, h, ptr) ==
    [i \in 1..Len(f) |->
        LET k == f[i] IN
        [op   |-> k.op,
         a    |-> IF k.op \notin Scoped /\ k.a = h THEN ptr ELSE k.a,
         b    |-> IF k.b = h THEN ptr ELSE k.b,
         t    |-> IF k.t = h THEN ptr ELSE k.t,
         body |-> IF k.op = "if_else"
                  THEN <<bind(k.body[1], h, ptr), bind(k.body[2], h, ptr)>>
                  ELSE bind(k.body, h, ptr)]]

\* with_stack_alloc that forgets the Ptr instead of dropping it
with_stack_alloc_mutant(c, h, f) ==
    LET ptr == stack_alloc_addr(c) IN
    <<StackAlloc>> \o bind(f, h, ptr)

\* let ptr = self.stack_alloc(); f(self, &ptr); and ptr goes out of scope
with_stack_alloc(c, h, f) ==
    LET ptr == stack_alloc_addr(c) IN
    <<StackAlloc>> \o bind(f, h, ptr) \o <<Drop(ptr)>>

with_stack_alloc2(h, f) == <<WithStackAlloc(h, <<WithStackAlloc(h + 1, f)>>)>>

with_stack_alloc3(h, f) == <<WithStackAlloc2(h, <<WithStackAlloc(h + 2, f)>>)>>

with_stack_alloc4(h, f) == <<WithStackAlloc3(h, <<WithStackAlloc(h + 3, f)>>)>>

with_stack_alloc5(h, f) == <<WithStackAlloc4(h, <<WithStackAlloc(h + 4, f)>>)>>

if_not(c, cond, f) ==
    LET not_cond == stack_alloc_addr(c) IN
    <<StackAlloc,
      Copy(cond, not_cond),
      Not(not_cond),
      IffDestructive(not_cond, f),
      Drop(not_cond)>>

if_not_destructive(cond, f) == <<Not(cond), IffDestructive(cond, f)>>

\* if_else whose second branch looks at cond itself, not at its copy
if_else_mutant(c, cond, f, g) ==
    <<Iff(cond, f), IfNot(cond, g)>>

if_else(c, cond, f, g) ==
    LET tmp_cond == stack_alloc_addr(c) IN
    <<StackAlloc,
      Copy(cond, tmp_cond),
      Iff(cond, f),
      IfNotDestructive(tmp_cond, g),
      Drop(tmp_cond)>>

\* add with the body of sub
add_mutant(target, source) ==
    IF source = target THEN <<AssertNeFailed>>
    ELSE <<RepeatReverseDestructive(source, <<Decrement(target)>>)>>

add(target, source) ==
    IF source = target THEN <<AssertNeFailed>>
    ELSE <<RepeatReverseDestructive(source, <<Increment(target)>>)>>

sub(target, source) ==
    IF source = target THEN <<AssertNeFailed>>
    ELSE <<RepeatReverseDestructive(source, <<Decrement(target)>>)>>

\* mul that adds source itself to the product, without the copy into tmp
mul_mutant(c, target, source) ==
    IF source = target THEN <<AssertNeFailed>>
    ELSE LET product == stack_alloc_addr(c)
             tmp == stack_alloc_addr(stack_alloc(c))
         IN <<StackAlloc, StackAlloc,
              Clear(product),
              RepeatReverseDestructive(target, <<Add(product, source)>>),
              Mov(product, target),
              Drop(tmp), Drop(product)>>

mul(c, target, source) ==
    IF source = target THEN <<AssertNeFailed>>
    ELSE LET product == stack_alloc_addr(c)
             tmp == stack_alloc_addr(stack_alloc(c))
         IN <<StackAlloc, StackAlloc,
              Clear(product),
              RepeatReverseDestructive(target, <<Copy(source, tmp), Add(product, tmp)>>),
              Mov(product, target),
              Drop(tmp), Drop(product)>>

\* mov that does not clear the target first
mov_mutant(source, target) ==
    IF source = target THEN <<>>
    ELSE <<WhileNotZero(source, <<Increment(target), Decrement(source)>>)>>

mov(source, target) ==
    IF source = target THEN <<>>
    ELSE <<Clear(target),
           WhileNotZero(source, <<Increment(target), Decrement(source)>>)>>

\* copy that does not give the source its value back
copy_mutant(c, source, target) ==
    IF source = target THEN <<>>
    ELSE LET tmp == stack_alloc_addr(c) IN
         <<StackAlloc,
           Clear(target),
           Mov(source, tmp),
           RepeatReverseDestructive(tmp, <<Increment(target)>>),
           Drop(tmp)>>

copy(c, source, target) ==
    IF source = target THEN <<>>
    ELSE LET tmp == stack_alloc_addr(c) IN
         <<StackAlloc,
           Clear(target),
           Mov(source, tmp),
           RepeatReverseDestructive(tmp, <<Increment(source), Increment(target)>>),
           Drop(tmp)>>

\* not whose flag starts at 0
not_mutant(c, cond) ==
    LET is_false == stack_alloc_addr(c) IN
    <<StackAlloc,
      Set(is_false, 0),
      RepeatReverseDestructive(cond, <<Decrement(is_false)>>),
      RepeatReverseDestructive(is_false, <<Increment(cond)>>),
      Drop(is_false)>>

not(c, cond) ==
    LET is_false == stack_alloc_addr(c) IN
    <<StackAlloc,
      Set(is_false, 1),
      RepeatReverseDestructive(cond, <<Decrement(is_false)>>),
      RepeatReverseDestructive(is_false, <<Increment(cond)>>),
      Drop(is_false)>>

is_zero_destructive(c, v) ==
    LET is_zero_ == stack_alloc_addr(c) IN
    <<StackAlloc,
      SetBool(is_zero_, TRUE),
      WhileNotZero(v, <<AssumeBool(is_zero_, TRUE),
                        SetBool(is_zero_, FALSE),
                        SetBool(v, FALSE)>>),
      IffDestructive(is_zero_, <<AssumeBool(v, FALSE), SetBool(v, TRUE)>>),
      Drop(is_zero_)>>

is_zero(source, target) == <<Copy(source, target), IsZeroDestructive(target)>>

\* equals_assign without the final is_zero_destructive
equals_assign_mutant(c, source, target) ==
    LET tmp == stack_alloc_addr(c) IN
    <<StackAlloc,
      Copy(source, tmp),
      RepeatReverseDestructive(tmp, <<Decrement(target)>>),
      Drop(tmp)>>

equals_assign(c, source, target) ==
    LET tmp == stack_alloc_addr(c) IN
    <<StackAlloc,
      Copy(source, tmp),
      RepeatReverseDestructive(tmp, <<Decrement(target)>>),
      IsZeroDestructive(target),
      Drop(tmp)>>

equals(a, b, target) == <<Copy(b, target), EqualsAssign(a, target)>>

and_assign_mutant(c, source, target) ==
    LET tmp == stack_alloc_addr(c) IN
    <<StackAlloc,
      Mov(target, tmp),
      IffDestructive(source, <<IffDestructive(tmp, <<IncrementBy(target, 1)>>)>>),
      Drop(tmp)>>

and_assign(c, source, target) ==
    LET tmp == stack_alloc_addr(c) IN
    <<StackAlloc,
      Mov(target, tmp),
      Iff(source, <<IffDestructive(tmp, <<IncrementBy(target, 1)>>)>>),
      Drop(tmp)>>

and(a, b, target) ==
    IF a = target \/ b = target THEN <<AssertNeFailed>>
    ELSE <<Copy(b, target), AndAssign(a, target)>>

and_not(a, b, target) == <<Copy(b, target), Not(target), AndAssign(a, target)>>

\* or_assign that does not look at the old target
or_assign_mutant(c, source, target) ==
    LET tmp == stack_alloc_addr(c) IN
    <<StackAlloc,
      Mov(target, tmp),
      Iff(source, <<AssumeBool(target, FALSE), SetBool(target, TRUE)>>),
      Drop(tmp)>>

or_assign(c, source, target) ==
    LET tmp == stack_alloc_addr(c) IN
    <<StackAlloc,
      Mov(target, tmp),
      Iff(source, <<AssumeBool(target, FALSE), SetBool(target, TRUE)>>),
      IffDestructive(tmp, <<SetBool(target, TRUE)>>),
      Drop(tmp)>>

or_mutant(a, b, target) == <<Copy(b, target), OrAssign(a, target)>>

or(a, b, target) ==
    IF a = target \/ b = target THEN <<AssertNeFailed>>
    ELSE <<Copy(b, target), OrAssign(a, target)>>

nor_assign(source, target) == <<OrAssign(source, target), Not(target)>>

nor(a, b, target) ==
    IF a = target \/ b = target THEN <<AssertNeFailed>>
    ELSE <<Copy(b, target), NorAssign(a, target)>>

xor_assign(source, target) == <<EqualsAssign(source, target)>>

xor(a, b, target) ==
    IF a = target \/ b = target THEN <<AssertNeFailed>>
    ELSE <<Copy(b, target), XorAssign(a, target)>>

greater_than_assign(c, source, target) ==
    IF value(c, source) # None /\ value(c, target) # None
    THEN <<SetBool(target, value(c, source)[1] > value(c, target)[1])>>
    ELSE LET tmp == stack_alloc_addr(c)
             tmp_is_zero == stack_alloc_addr(stack_alloc(c))
             target_is_zero == stack_alloc_addr(stack_alloc(stack_alloc(c)))
             neither_is_zero == stack_alloc_addr(stack_alloc(stack_alloc(stack_alloc(c))))
         IN <<StackAlloc, StackAlloc, StackAlloc, StackAlloc,
              Copy(source, tmp),
              IsZero(tmp, tmp_is_zero),
              IsZero(target, target_is_zero),
              Nor(tmp_is_zero, target_is_zero, neither_is_zero),
              WhileTrue(neither_is_zero,
                  <<Decrement(tmp),
                    Decrement(target),
                    IsZero(tmp, tmp_is_zero),
                    IsZero(target, target_is_zero),
                    Nor(tmp_is_zero, target_is_zero, neither_is_zero)>>),
              AndNot(target_is_zero, tmp_is_zero, target),
              Drop(neither_is_zero), Drop(target_is_zero), Drop(tmp_is_zero), Drop(tmp)>>

greater_than(c, a, b, target) ==
    IF value(c, a) # None /\ value(c, b) # None
    THEN <<SetBool(target, value(c, a)[1] > value(c, b)[1])>>
    ELSE <<Copy(b, target), GreaterThanAssign(a, target)>>

(* The translator: expressions of the source language and their lowering  *)
(* into a target cell.                                                     *)

ExprConst(v)  == [e |-> "Const", v |-> v]
ExprVar(name) == [e |-> "Var", name |-> name]
ExprAdd(a, b) == [e |-> "Add", a |-> a, b |-> b]
ExprSub(a, b) == [e |-> "Sub", a |-> a, b |-> b]
ExprGt(a, b)  == [e |-> "Gt", a |-> a, b |-> b]

RECURSIVE const_value(_)
const_value(expr) ==
    CASE expr.e = "Const" -> Some(expr.v)
      [] expr.e = "Var"   -> None
      [] OTHER ->
           LET a == const_value(expr.a)
               b == const_value(expr.b)
           IN IF a = None \/ b = None THEN None
              ELSE CASE expr.e = "Add" -> Some((a[1] + b[1]) % U8Modulus)
                     [] expr.e = "Sub" -> Some((a[1] - b[1] + U8Modulus) % U8Modulus)
                     [] expr.e = "Gt"  -> Some(bool_as_u8(a[1] > b[1]))

\* Scope::resolve_var in a scope without outer scope: the last binding of
\* ident, ident being bound
resolve_var(variables, ident) ==
    LET found == {i \in 1..Len(variables) : variables[i][1] = ident}
    IN variables[CHOOSE i \in found : \A j \in found : j <= i][2]

\* struct Scope: the bindings of a frame, in the order of their insertion,
\* and the scope around it
Scope(vars_, outer) == [variables |-> vars_, outer |-> outer]

\* Scope::resolve_var: Some(ptr) of the last binding of ident in the
\* innermost frame that binds it, None (the Err) when no frame binds it
RECURSIVE Scope_resolve_var_mutant(_, _)
Scope_resolve_var_mutant(scope, ident) ==
    LET found == {i \in 1..Len(scope.variables) : scope.variables[i][1] = ident}
    IN IF found # {}
       THEN Some(scope.variables[CHOOSE i \in found : \A j \in found : i <= j][2])
       ELSE IF scope.outer = None THEN None
       ELSE Scope_resolve_var_mutant(scope.outer[1], ident)

RECURSIVE Scope_resolve_var(_, _)
Scope_resolve_var(scope, ident) ==
    LET found == {i \in 1..Len(scope.variables) : scope.variables[i][1] = ident}
    IN IF found # {}
       THEN Some(scope.variables[CHOOSE i \in found : \A j \in found : j <= i][2])
       ELSE IF scope.outer = None THEN None
       ELSE Scope_resolve_var(scope.outer[1], ident)

\* the statements of the source language
StmtDecl(name, expr)       == [s |-> "Decl", name |-> name, value |-> expr]
StmtAssign(name, expr)     == [s |-> "Assign", name |-> name, value |-> expr]
StmtAddAssign(name, expr)  == [s |-> "AddAssign", name |-> name, value |-> expr]
StmtWhile(cond, body)      == [s |-> "While", cond |-> cond, body |-> body]
StmtIf(cond, body)         == [s |-> "If", cond |-> cond, body |-> body]

\* calls of the translator
TransExpr(scope, expr, target) == K("trans_expr", target, 0, scope, expr)
TransExprRhs(scope, expr, a_tmp, target) == K("trans_expr_rhs", target, a_tmp, scope, expr)
Assign(scope, name, expr) == K("assign", name, 0, scope, expr)
Decl(scope, name, expr) == K("decl", name, 0, scope, expr)
DeclNone(scope, name) == K("decl_none", name, 0, scope, <<>>)
AddAssign(scope, name, expr) == K("add_assign", name, 0, scope, expr)
While(scope, cond, body) == K("while", cond, 0, scope, body)
If(scope, cond, body) == K("if", cond, 0, scope, body)
\* the statements stmts translated one after the other in the frame scope,
\* and the frame released
TransStmts(scope, stmts) == K("trans_stmts", 0, 0, scope, stmts)
\* scope.new(self, |this, scope| for stmt in body { this.trans_stmt(scope, stmt)? })
ScopeNew(scope, stmts) == K("scope_new", 0, 0, scope, stmts)
\* the Err of resolve_var, naming the identifier
Err(ident) == K("err", ident, 0, 0, <<>>)
Trans(stmts) == K("trans", 0, 0, 0, stmts)

\* self.context.stack_free(ptr): the slot of ptr is free again
stack_free(ptr) == Drop(ptr)

\* the second half of a binary expression, from let b_tmp on
trans_expr_rhs(c, scope, expr, a_tmp, target) ==
    LET b_tmp == stack_alloc_addr(c) IN
    <<StackAlloc, TransExpr(scope, expr.b, b_tmp)>>
    \o (CASE expr.e = "Add" -> <<Add(a_tmp, b_tmp), Mov(a_tmp, target)>>
          [] expr.e = "Sub" -> <<Sub(a_tmp, b_tmp), Mov(a_tmp, target)>>
          [] expr.e = "Gt"  -> <<GreaterThan(a_tmp, b_tmp, target)>>)
    \o <<stack_free(a_tmp), stack_free(b_tmp)>>

trans_expr(c, scope, expr, target) ==
    CASE expr.e = "Const" -> <<Set(target, expr.v)>>
      [] expr.e = "Var"   ->
           LET ptr == Scope_resolve_var(scope, expr.name) IN
           IF ptr = None THEN <<Err(expr.name)>> ELSE <<Copy(ptr[1], target)>>
      [] OTHER ->
           LET a_tmp == stack_alloc_addr(c) IN
           <<StackAlloc,
             TransExpr(scope, expr.a, a_tmp),
             TransExprRhs(scope, expr, a_tmp, target)>>

\* Statement::Assign in trans_stmt
trans_stmt_assign(scope, name, expr) ==
    LET ptr == Scope_resolve_var(scope, name) IN
    IF ptr = None THEN <<Err(name)>> ELSE <<TransExpr(scope, expr, ptr[1])>>

\* Statement::Decl in trans_stmt, with a value: scope.alloc_var, then the value
alloc_var(c, scope, ident) ==
    [scope EXCEPT !.variables = Append(@, <<ident, stack_alloc_addr(c)>>)]

trans_stmt_decl(c, scope, name, expr) ==
    LET ptr == stack_alloc_addr(c) IN
    <<StackAlloc, TransExpr(alloc_var(c, scope, name), expr, ptr)>>

\* Statement::Decl in trans_stmt, without a value
trans_stmt_decl_none == <<StackAlloc>>

\* trans_stmt_while that lowers the condition again before the body, not
\* after it
trans_stmt_while_mutant(c, scope, cond, body) ==
    LET tmp == stack_alloc_addr(c) IN
    <<StackAlloc,
      TransExpr(scope, cond, tmp),
      LoopOpen(tmp),
      TransExpr(scope, cond, tmp),
      ScopeNew(scope, body),
      LoopClose(tmp),
      stack_free(tmp)>>

\* trans_stmt_while
trans_stmt_while(c, scope, cond, body) ==
    LET tmp == stack_alloc_addr(c) IN
    <<StackAlloc,
      TransExpr(scope, cond, tmp),
      LoopOpen(tmp),
      ScopeNew(scope, body),
      TransExpr(scope, cond, tmp),
      LoopClose(tmp),
      stack_free(tmp)>>

\* trans_stmt_if
trans_stmt_if(c, scope, cond, body) ==
    LET tmp == stack_alloc_addr(c) IN
    <<StackAlloc,
      TransExpr(scope, cond, tmp),
      LoopOpen(tmp),
      ScopeNew(scope, body),
      Decrement(tmp),
      LoopClose(tmp),
      stack_free(tmp)>>

\* trans_stmt: the call that translates the statement stmt
\* `name += value`: trans_stmt has no arm for Statement::AddAssign (ir.rs
\* parses it); this is the lowering the specification gives for it: resolve
\* the name, lower the value into a fresh temporary, add(handle, temp)
trans_stmt_add_assign(c, scope, name, expr) ==
    LET ptr == Scope_resolve_var(scope, name)
        tmp == stack_alloc_addr(c)
    IN IF ptr = None THEN <<Err(name)>>
       ELSE <<StackAlloc,
              TransExpr(scope, expr, tmp),
              Add(ptr[1], tmp),
              stack_free(tmp)>>

trans_stmt(scope, stmt) ==
    CASE stmt.s = "Decl" ->
           IF stmt.value = None THEN DeclNone(scope, stmt.name)
           ELSE Decl(scope, stmt.name, stmt.value[1])
      [] stmt.s = "Assign"    -> Assign(scope, stmt.name, stmt.value)
      [] stmt.s = "While"     -> While(scope, stmt.cond, stmt.body)
      [] stmt.s = "If"        -> If(scope, stmt.cond, stmt.body)

\* Scope::alloc_var: the scope with ident bound to the Ptr that stack_alloc
\* returns in the context c
\* Scope::dealloc_vars: the Ptrs of the frame are freed, the last one first
dealloc_vars(scope) ==
    [i \in 1..Len(scope.variables) |->
        stack_free(scope.variables[Len(scope.variables) + 1 - i][2])]

\* for stmt in stmts { trans_stmt(scope, stmt)? } and the dealloc_vars that
\* follows the closure
trans_stmts(c, scope, stmts) ==
    IF stmts = <<>> THEN dealloc_vars(scope)
    ELSE LET stmt == Head(stmts) IN
         <<trans_stmt(scope, stmt),
           TransStmts(IF stmt.s = "Decl" THEN alloc_var(c, scope, stmt.name) ELSE scope,
                      Tail(stmts))>>

\* Scope::new: an empty frame inside scope
\* Scope::root with the closure of Trans::run
Scope_root(stmts) == <<TransStmts(Scope(<<>>, None), stmts)>>

scope_new(scope, stmts) == <<TransStmts(Scope(<<>>, Some(scope)), stmts)>>

\* the calls that are executed in one step: they call no other method but
\* seek, emit and the known-value accessors
Basic ==
    {"clear", "set", "set_bool", "assume_bool", "increment", "decrement",
     "increment_by", "decrement_by", "stack_alloc", "drop", "loop_open",
     "loop_close", "assert_ne", "seek", "clone"}

\* the context after the basic call k
apply(c, k) ==
    CASE k.op = "clear"        -> clear(c, k.a)
      [] k.op = "set"          -> set(c, k.a, k.b)
      [] k.op = "set_bool"     -> set_bool(c, k.a, k.b = 1)
      [] k.op = "assume_bool"  -> assume_bool(c, k.a, k.b = 1)
      [] k.op = "increment"    -> increment(c, k.a)
      [] k.op = "decrement"    -> decrement(c, k.a)
      [] k.op = "increment_by" -> increment_by(c, k.a, k.b)
      [] k.op = "decrement_by" -> decrement_by(c, k.a, k.b)
      [] k.op = "stack_alloc"  -> stack_alloc(c)
      [] k.op = "drop"         -> drop(c, k.a)
      [] k.op = "loop_open"    -> loop_open(c, k.a)
      [] k.op = "loop_close"   -> loop_close(c, k.a)
      [] k.op = "assert_ne"    -> assert_ne_failed(c)
      [] k.op = "seek"         -> seek(c, k.a)
      [] k.op = "clone"        -> clone(c, k.a)

\* the calls the compound call k makes, in order, when called in context c
body_of(c, k) ==
    CASE k.op = "while_not_zero"   -> while_not_zero(k.a, k.body)
      [] k.op = "while_true"       -> while_true(k.a, k.body)
      [] k.op = "repeat_reverse_destructive" -> repeat_reverse_destructive(k.a, k.body)
      [] k.op = "repeat_reverse"   -> repeat_reverse(c, k.a, k.body)
      [] k.op = "iff"              -> iff(k.a, k.body)
      [] k.op = "iff_destructive"  -> iff_destructive(k.a, k.body)
      [] k.op = "with_stack_alloc"  -> with_stack_alloc(c, k.a, k.body)
      [] k.op = "with_stack_alloc2" -> with_stack_alloc2(k.a, k.body)
      [] k.op = "with_stack_alloc3" -> with_stack_alloc3(k.a, k.body)
      [] k.op = "with_stack_alloc4" -> with_stack_alloc4(k.a, k.body)
      [] k.op = "with_stack_alloc5" -> with_stack_alloc5(k.a, k.body)
      [] k.op = "if_not"           -> if_not(c, k.a, k.body)
      [] k.op = "trans_expr"       -> trans_expr(c, k.t, k.body, k.a)
      [] k.op = "trans_expr_rhs"   -> trans_expr_rhs(c, k.t, k.body, k.b, k.a)
      [] k.op = "assign"           -> trans_stmt_assign(k.t, k.a, k.body)
      [] k.op = "decl"             -> trans_stmt_decl(c, k.t, k.a, k.body)
      [] k.op = "decl_none"        -> trans_stmt_decl_none
      [] k.op = "add_assign"       -> trans_stmt_add_assign(c, k.t, k.a, k.body)
      [] k.op = "while"            -> trans_stmt_while(c, k.t, k.a, k.body)
      [] k.op = "if"               -> trans_stmt_if(c, k.t, k.a, k.body)
      [] k.op = "trans_stmts"      -> trans_stmts(c, k.t, k.body)
      [] k.op = "scope_new"        -> scope_new(k.t, k.body)
      [] k.op = "trans"            -> Scope_root(k.body)
      [] k.op = "if_not_destructive" -> if_not_destructive(k.a, k.body)
      [] k.op = "if_else"          -> if_else(c, k.a, k.body[1], k.body[2])
      [] k.op = "add"              -> add(k.a, k.b)
      [] k.op = "sub"              -> sub(k.a, k.b)
      [] k.op = "mul"              -> mul(c, k.a, k.b)
      [] k.op = "mov"              -> mov(k.a, k.b)
      [] k.op = "copy"             -> copy(c, k.a, k.b)
      [] k.op = "not"              -> not(c, k.a)
      [] k.op = "is_zero_destructive" -> is_zero_destructive(c, k.a)
      [] k.op = "is_zero"          -> is_zero(k.a, k.b)
      [] k.op = "equals_assign"    -> equals_assign(c, k.a, k.b)
      [] k.op = "equals"           -> equals(k.a, k.b, k.t)
      [] k.op = "greater_than_assign" -> greater_than_assign(c, k.a, k.b)
      [] k.op = "greater_than"     -> greater_than(c, k.a, k.b, k.t)
      [] k.op = "and_assign"       -> and_assign(c, k.a, k.b)
      [] k.op = "and"              -> and(k.a, k.b, k.t)
      [] k.op = "and_not"          -> and_not(k.a, k.b, k.t)
      [] k.op = "or_assign"        -> or_assign(c, k.a, k.b)
      [] k.op = "or"               -> or(k.a, k.b, k.t)
      [] k.op = "nor_assign"       -> nor_assign(k.a, k.b)
      [] k.op = "nor"              -> nor(k.a, k.b, k.t)
      [] k.op = "xor_assign"       -> xor_assign(k.a, k.b)
      [] k.op = "xor"              -> xor(k.a, k.b, k.t)

----------------------------------------------------------------------------
(* VM: the tape machine of minibf *)

\* VM.mem is all zero at first; only the cells written are kept
VM_new_mem == [a \in {} |-> 0]

cell(m, a) == IF a \in DOMAIN m THEN m[a] ELSE 0

store(m, a, v) == [x \in DOMAIN m \cup {a} |-> IF x = a THEN v ELSE m[x]]

\* VM::run, the loop condition and the byte under ip
running == pc \in {"run", "test"} /\ ip < Len(code)

\* the match of VM::run is at byte b (and loop_start is not in its scan)
at(b) == running /\ unclosed_brackets = 0 /\ code[ip + 1] = b

\* VM::run, after the match: op_count += 1; assert!(op_count <= MAX_STEPS)
counted(next_pc) ==
    /\ op_count' = op_count + 1
    /\ pc' = IF op_count + 1 > MAX_STEPS THEN "panic" ELSE next_pc

left ==
    /\ at("<")
    /\ dp' = (dp + MEM_SIZE - 1) % MEM_SIZE
    /\ ip' = ip + 1
    /\ counted(pc)
    /\ UNCHANGED <<mem, loop_stack, unclosed_brackets, ctxvars, drivervars, todo>>

right ==
    /\ at(">")
    /\ dp' = (dp + 1) % MEM_SIZE
    /\ ip' = ip + 1
    /\ counted(pc)
    /\ UNCHANGED <<mem, loop_stack, unclosed_brackets, ctxvars, drivervars, todo>>

vm_increment ==
    /\ at("+")
    /\ mem' = store(mem, dp, wrapping(cell(mem, dp) + 1))
    /\ ip' = ip + 1
    /\ counted(pc)
    /\ UNCHANGED <<dp, loop_stack, unclosed_brackets, ctxvars, drivervars, todo>>

vm_decrement ==
    /\ at("-")
    /\ mem' = store(mem, dp, wrapping(cell(mem, dp) + U8Modulus - 1))
    /\ ip' = ip + 1
    /\ counted(pc)
    /\ UNCHANGED <<dp, loop_stack, unclosed_brackets, ctxvars, drivervars, todo>>

\* loop_start up to its scan: a non-zero cell enters the loop, a zero cell starts
\* the scan for the matching "]" with unclosed_brackets = 1
loop_start ==
    /\ at("[")
    /\ IF cell(mem, dp) # 0
       THEN /\ loop_stack' = Append(loop_stack, ip)
            /\ ip' = ip + 1
            /\ unclosed_brackets' = 0
            /\ counted(pc)
       ELSE /\ unclosed_brackets' = 1
            /\ UNCHANGED <<loop_stack, ip, op_count, pc>>
    /\ UNCHANGED <<mem, dp, ctxvars, drivervars, todo>>

\* one iteration of the scan of loop_start: ip += 1, then code[ip] is matched
\* (an index past the end of the code panics); when the scan ends, ip += 1
loop_scan ==
    /\ pc \in {"run", "test"}
    /\ unclosed_brackets > 0
    /\ IF ip + 1 >= Len(code)
       THEN /\ pc' = "panic"
            /\ UNCHANGED <<ip, unclosed_brackets, op_count>>
       ELSE LET b == code[ip + 2]
                u == IF b = "[" THEN unclosed_brackets + 1
                     ELSE IF b = "]" THEN unclosed_brackets - 1
                     ELSE unclosed_brackets
            IN /\ unclosed_brackets' = u
               /\ IF u > 0
                  THEN ip' = ip + 1 /\ UNCHANGED <<op_count, pc>>
                  ELSE ip' = ip + 2 /\ counted(pc)
    /\ UNCHANGED <<mem, dp, loop_stack, ctxvars, drivervars, todo>>

loop_end ==
    /\ at("]")
    /\ IF loop_stack = <<>>
       THEN /\ pc' = "panic"
            /\ UNCHANGED <<ip, loop_stack, op_count>>
       ELSE /\ ip' = loop_stack[Len(loop_stack)]
            /\ loop_stack' = SubSeq(loop_stack, 1, Len(loop_stack) - 1)
            /\ counted(pc)
    /\ UNCHANGED <<mem, dp, unclosed_brackets, ctxvars, drivervars, todo>>

\* the eight operations
Operations == {"<", ">", "+", "-", "[", "]", ".", ","}

\* run, match arm `_ => {}` for a byte that is not an operation: the arm
\* leaves ip as it is and the loop of run counts the iteration; the model
\* follows the run as long as op_count is below MaxSteps
ignored ==
    /\ running
    /\ unclosed_brackets = 0
    /\ code[ip + 1] \notin Operations
    /\ op_count < MaxSteps
    /\ counted(pc)
    /\ UNCHANGED <<mem, dp, ip, loop_stack, unclosed_brackets, ctxvars, drivervars, todo>>

\* run, match arms for `.` and `,`: unimplemented!
unimplemented ==
    /\ running
    /\ unclosed_brackets = 0
    /\ code[ip + 1] \in {".", ","}
    /\ pc' = "panic"
    /\ UNCHANGED <<vmvars, ctxvars, drivervars, todo>>

VMStep ==
    left \/ right \/ vm_increment \/ vm_decrement \/ loop_start \/ loop_scan \/ loop_end

----------------------------------------------------------------------------
(* The driver: builds the code with a Context and runs it on a VM *)

Ctx ==
    [code |-> code, addr |-> addr, stack_pointers |-> stack_pointers,
     known_values |-> known_values, wrapped |-> wrapped, panicked |-> panicked]

Install(c) ==
    /\ code' = c.code
    /\ addr' = c.addr
    /\ stack_pointers' = c.stack_pointers
    /\ known_values' = c.known_values
    /\ wrapped' = c.wrapped
    /\ panicked' = c.panicked

NoCall == K("none", 0, 0, 0, <<>>)

Init ==
    /\ code = Context_new.code
    /\ addr = Context_new.addr
    /\ stack_pointers = Context_new.stack_pointers
    /\ known_values = Context_new.known_values
    /\ wrapped = Context_new.wrapped
    /\ panicked = Context_new.panicked
    /\ mem = VM_new_mem
    /\ loop_stack = <<>>
    /\ ip = 0
    /\ dp = 0
    /\ op_count = 0
    /\ unclosed_brackets = 0
    /\ todo = <<>>
    /\ pc = "setup"
    /\ inits = <<>>
    /\ calls = 0
    /\ call = NoCall
    /\ pre = VM_new_mem
    /\ pre_ctx = Context_new

\* the cells the driver holds a Ptr to
live == {a \in 0..(Len(stack_pointers) - 1) : stack_pointers[a + 1] > 0}

\* the driver is about to make allocation number i, for some i in from..to
allocating(from, to) == pc = "setup" /\ Len(inits) + 1 \in from..to

\* let ptr = ctx.stack_alloc(); ctx.set(&ptr, v): the cell holds v and v is known
AllocSet(from, to, S) ==
    /\ allocating(from, to)
    /\ \E v \in S :
        /\ Install(set(stack_alloc(Ctx), stack_alloc_addr(Ctx), v))
        /\ inits' = Append(inits, [how |-> "set", v |-> v])
    /\ UNCHANGED <<vmvars, pc, calls, call, pre, pre_ctx, todo>>

\* let ptr = ctx.stack_alloc(); ctx.increment_by(&ptr, v): the cell holds v, nothing is known
AllocIncrementBy(from, to, S) ==
    /\ allocating(from, to)
    /\ \E v \in S :
        /\ Install(increment_by(stack_alloc(Ctx), stack_alloc_addr(Ctx), v))
        /\ inits' = Append(inits, [how |-> "increment_by", v |-> v])
    /\ UNCHANGED <<vmvars, pc, calls, call, pre, pre_ctx, todo>>

\* ctx.with_stack_alloc(|ctx, ptr| ctx.set(ptr, v)): the slot is free again, its
\* cell holds v and v is known
AllocSetDrop(from, to, S) ==
    /\ allocating(from, to)
    /\ \E v \in S :
        /\ Install(drop(set(stack_alloc(Ctx), stack_alloc_addr(Ctx), v), stack_alloc_addr(Ctx)))
        /\ inits' = Append(inits, [how |-> "set, drop", v |-> v])
    /\ UNCHANGED <<vmvars, pc, calls, call, pre, pre_ctx, todo>>

\* ctx.with_stack_alloc(|ctx, ptr| ctx.increment_by(ptr, v)): the slot is free
\* again, its cell holds v and nothing is known
AllocIncrementByDrop(from, to, S) ==
    /\ allocating(from, to)
    /\ \E v \in S :
        /\ Install(drop(increment_by(stack_alloc(Ctx), stack_alloc_addr(Ctx), v),
                        stack_alloc_addr(Ctx)))
        /\ inits' = Append(inits, [how |-> "increment_by, drop", v |-> v])
    /\ UNCHANGED <<vmvars, pc, calls, call, pre, pre_ctx, todo>>

\* vm.run(code) on the code emitted so far, after n allocations
Run(n) ==
    /\ pc = "setup"
    /\ Len(inits) = n
    /\ pc' = "run"
    /\ ip' = 0
    /\ op_count' = 0
    /\ UNCHANGED <<ctxvars, mem, loop_stack, dp, unclosed_brackets, drivervars, todo>>

\* VM::run returns: ip reached the end of the code
Returned ==
    /\ pc \in {"run", "test"}
    /\ ip >= Len(code)
    /\ unclosed_brackets = 0
    /\ pc' = IF pc = "run" THEN "ready" ELSE "done"
    /\ UNCHANGED <<ctxvars, vmvars, drivervars, todo>>

\* the driver calls the primitive k in the context built so far
Call(k) ==
    /\ pc = "ready"
    /\ todo' = <<k>>
    /\ calls' = calls + 1
    /\ call' = k
    /\ pre' = mem
    /\ pre_ctx' = Ctx
    /\ pc' = "emit"
    /\ UNCHANGED <<ctxvars, vmvars, inits>>

\* the driver goes on to call another primitive
Again ==
    /\ pc = "done"
    /\ calls < MaxCalls
    /\ pc' = "ready"
    /\ UNCHANGED <<ctxvars, vmvars, drivervars, todo>>

\* the next call is made: a basic call changes the context, a compound call
\* makes the calls of its body
EmitStep ==
    /\ pc = "emit"
    /\ todo # <<>>
    /\ Head(todo).op # "err"
    /\ LET k == Head(todo) IN
       IF k.op \in Basic
       THEN /\ Install(apply(Ctx, k))
            /\ todo' = Tail(todo)
            /\ pc' = IF apply(Ctx, k).panicked THEN "panic" ELSE "emit"
       ELSE /\ todo' = body_of(Ctx, k) \o Tail(todo)
            /\ UNCHANGED <<ctxvars, pc>>
    /\ UNCHANGED <<vmvars, drivervars>>

\* the primitive returned: vm.run(code) on the code emitted
\* resolve_var returned Err and `?` returns it from trans_stmt, Trans::run
\* and trans: the lowering ends with the error and no code
Fail ==
    /\ pc = "emit"
    /\ todo # <<>>
    /\ Head(todo).op = "err"
    /\ todo' = <<Head(todo)>>
    /\ pc' = "error"
    /\ UNCHANGED <<ctxvars, vmvars, drivervars>>

\* increment, decrement, increment_by, decrement_by in a build with overflow
\* checks: the u8 arithmetic of the closure given to map_known_value
\* panics when the known value leaves 0..255, after the seek and the emit
\* (EmitStep is the build without the checks, where the value wraps)
overflow ==
    /\ pc = "emit"
    /\ todo # <<>>
    /\ Head(todo).op \in {"increment", "decrement", "increment_by", "decrement_by"}
    /\ LET c == apply(Ctx, Head(todo)) IN
       /\ c.wrapped
       /\ ~wrapped
       /\ Install([c EXCEPT !.known_values = known_values,
                            !.wrapped = FALSE,
                            !.panicked = TRUE])
    /\ todo' = Tail(todo)
    /\ pc' = "panic"
    /\ UNCHANGED <<vmvars, drivervars>>

RunTest ==
    /\ pc = "emit"
    /\ todo = <<>>
    /\ pc' = "test"
    /\ op_count' = 0
    /\ UNCHANGED <<ctxvars, mem, loop_stack, ip, dp, unclosed_brackets, drivervars, todo>>

CallAdd == \E t \in live : \E s \in live \ {t} : Call(Add(t, s))

CallSub == \E t \in live : \E s \in live \ {t} : Call(Sub(t, s))

CallMul ==
    \E t \in live : \E s \in live \ {t} :
        /\ cell(mem, t) * cell(mem, s) <= MaxProduct
        /\ Call(Mul(t, s))

NextArith ==
    \/ AllocSet(1, 2, Vals)
    \/ AllocIncrementBy(1, 2, Vals)
    \/ Run(2)
    \/ VMStep
    \/ Returned
    \/ EmitStep
    \/ RunTest
    \/ CallAdd
    \/ CallSub
    \/ CallMul

SpecArith == Init /\ [][NextArith]_vars

CallCopy == \E s \in live : \E t \in live : Call(Copy(s, t))

CallMov == \E s \in live : \E t \in live : Call(Mov(s, t))

NextMove ==
    \/ AllocSet(1, 2, Vals)
    \/ AllocIncrementBy(1, 2, Vals)
    \/ Run(2)
    \/ VMStep
    \/ Returned
    \/ EmitStep
    \/ RunTest
    \/ CallCopy
    \/ CallMov

SpecMove == Init /\ [][NextMove]_vars

\* greater_than(a, b, target) with a the first cell, b the first or the second
\* cell and target the third
CallGreaterThan == \E b \in {0, 1} : Call(GreaterThan(0, b, 2))

NextGt ==
    \/ AllocSet(1, 2, 0..MaxVal)
    \/ AllocIncrementBy(1, 2, 0..MaxVal)
    \/ AllocSet(3, 3, Bools)
    \/ AllocIncrementBy(3, 3, {MaxVal})
    \/ Run(3)
    \/ VMStep
    \/ Returned
    \/ EmitStep
    \/ RunTest
    \/ CallGreaterThan

SpecGt == Init /\ [][NextGt]_vars

\* equals(a, b, target) with a the first cell, b the first or the second cell
\* and target the third
CallEquals == \E b \in {0, 1} : Call(Equals(0, b, 2))

\* equals_assign(source, target) on the first two cells
CallEqualsAssign == \E s \in {0, 1} : \E t \in {0, 1} : Call(EqualsAssign(s, t))

NextEq ==
    \/ AllocSet(1, 1, Vals)
    \/ AllocSet(2, 2, 0..MaxVal)
    \/ AllocIncrementBy(1, 2, 0..MaxVal)
    \/ AllocSet(3, 3, Bools)
    \/ AllocIncrementBy(3, 3, {MaxVal})
    \/ Run(3)
    \/ VMStep
    \/ Returned
    \/ EmitStep
    \/ RunTest
    \/ CallEquals
    \/ CallEqualsAssign

SpecEq == Init /\ [][NextEq]_vars

\* is_zero_destructive(v) with v the first cell
CallIsZeroDestructive == Call(IsZeroDestructive(0))

\* is_zero(source, target) with source the first and target the second cell
CallIsZero == Call(IsZero(0, 1))

\* the third allocation is dropped again: it is the slot is_zero_destructive
\* allocates for its flag
NextZero ==
    \/ AllocSet(1, 1, Vals)
    \/ AllocIncrementBy(1, 1, Vals)
    \/ AllocSet(2, 2, Bools)
    \/ AllocIncrementBy(2, 2, {MaxVal})
    \/ AllocSetDrop(3, 3, 0..MaxVal)
    \/ AllocIncrementByDrop(3, 3, 0..MaxVal)
    \/ Run(3)
    \/ VMStep
    \/ Returned
    \/ EmitStep
    \/ RunTest
    \/ CallIsZeroDestructive
    \/ CallIsZero

SpecZero == Init /\ [][NextZero]_vars

\* not(c) on any of the three cells
CallNot == \E c \in live : Call(Not(c))

\* and, or, nor (a, b, target) with a and b among the first two cells and target
\* the third
CallAnd == \E a \in {0, 1} : \E b \in {0, 1} : Call(And(a, b, 2))

CallOr == \E a \in {0, 1} : \E b \in {0, 1} : Call(Or(a, b, 2))

CallNor == \E a \in {0, 1} : \E b \in {0, 1} : Call(Nor(a, b, 2))

\* the fourth allocation is dropped again: it is the slot the primitive
\* allocates first
NextLogic ==
    \/ AllocSet(1, 3, Bools)
    \/ AllocIncrementBy(1, 3, Bools)
    \/ AllocSetDrop(4, 4, Bools)
    \/ AllocIncrementByDrop(4, 4, {MaxVal})
    \/ Run(4)
    \/ VMStep
    \/ Returned
    \/ EmitStep
    \/ RunTest
    \/ CallNot
    \/ CallAnd
    \/ CallOr
    \/ CallNor

SpecLogic == Init /\ [][NextLogic]_vars

\* Context::with_addr(code, a) for an address a, and a VM that has run nothing
InitSeek ==
    /\ \E a \in (-MaxAddr)..MaxAddr :
        /\ addr = Context_with_addr(a).addr
        /\ inits = <<[how |-> "with_addr", v |-> a]>>
    /\ code = Context_new.code
    /\ stack_pointers = Context_new.stack_pointers
    /\ known_values = Context_new.known_values
    /\ wrapped = Context_new.wrapped
    /\ panicked = Context_new.panicked
    /\ mem = VM_new_mem
    /\ loop_stack = <<>>
    /\ ip = 0
    /\ dp = 0
    /\ op_count = 0
    /\ unclosed_brackets = 0
    /\ todo = <<>>
    /\ pc = "ready"
    /\ calls = 0
    /\ call = NoCall
    /\ pre = VM_new_mem
    /\ pre_ctx = Context_with_addr(addr)

CallSeek == \E t \in (-MaxAddr)..MaxAddr : Call(Seek(t))

\* sequences of up to MaxCalls seeks, each run on the VM
NextSeek ==
    \/ CallSeek
    \/ EmitStep
    \/ RunTest
    \/ left
    \/ right
    \/ Returned
    \/ Again

SpecSeek == InitSeek /\ [][NextSeek]_vars

\* ctx.repeat_reverse_destructive(counter, |ctx, _| ctx.increment(q)), and the
\* same with a closure that does nothing
CallRepeatReverseDestructive ==
    \E counter \in live : \E q \in live \ {counter} :
        \E f \in {<<Increment(q)>>, <<>>} : Call(RepeatReverseDestructive(counter, f))

\* ctx.repeat_reverse(p, |ctx, _| ctx.increment(q))
CallRepeatReverse ==
    \E p \in live : \E q \in live \ {p} : Call(RepeatReverse(p, <<Increment(q)>>))

\* ctx.iff(cond, |ctx| ctx.increment(q))
CallIffIncrement ==
    \E cond \in live : \E q \in live \ {cond} : Call(Iff(cond, <<Increment(q)>>))

NextRepeat ==
    \/ AllocSet(1, 2, Vals)
    \/ AllocIncrementBy(1, 2, Vals)
    \/ Run(2)
    \/ VMStep
    \/ Returned
    \/ EmitStep
    \/ RunTest
    \/ CallRepeatReverseDestructive
    \/ CallRepeatReverse
    \/ CallIffIncrement

SpecRepeat == Init /\ [][NextRepeat]_vars

\* ctx.if_else(cond, f, g) with cond the first cell, f incrementing the second
\* cell and g the third; f may also clear or increment cond
CallIfElse ==
    \E f \in {<<Increment(1)>>, <<Increment(1), Clear(0)>>, <<Increment(1), Increment(0)>>} :
        Call(IfElse(0, f, <<Increment(2)>>))

\* ctx.if_not(cond, |ctx| ctx.increment(q)) with cond the first cell
CallIfNot == \E q \in {1, 2} : Call(IfNot(0, <<Increment(q)>>))

NextIf ==
    \/ AllocSet(1, 1, Bools)
    \/ AllocIncrementBy(1, 1, Bools)
    \/ AllocSet(2, 3, 0..MaxVal)
    \/ AllocIncrementBy(2, 3, 0..MaxVal)
    \/ Run(3)
    \/ VMStep
    \/ Returned
    \/ EmitStep
    \/ RunTest
    \/ CallIfElse
    \/ CallIfNot

SpecIf == Init /\ [][NextIf]_vars

(* The allocator: the driver allocates and drops Ptrs of its own and calls *)
(* with_stack_allocN with closures that use their Ptrs, call primitives,   *)
(* nest further with_stack_allocN, panic, or keep a clone of a Ptr.        *)

InitAlloc ==
    /\ code = Context_new.code
    /\ addr = Context_new.addr
    /\ stack_pointers = Context_new.stack_pointers
    /\ known_values = Context_new.known_values
    /\ wrapped = Context_new.wrapped
    /\ panicked = Context_new.panicked
    /\ mem = VM_new_mem
    /\ loop_stack = <<>>
    /\ ip = 0
    /\ dp = 0
    /\ op_count = 0
    /\ unclosed_brackets = 0
    /\ todo = <<>>
    /\ pc = "ready"
    /\ inits = <<>>
    /\ calls = 0
    /\ call = NoCall
    /\ pre = VM_new_mem
    /\ pre_ctx = Context_new

\* the slots that are live in the context c
live_in(c) == {a \in 0..(Len(c.stack_pointers) - 1) : c.stack_pointers[a + 1] > 0}

\* let ptr = ctx.stack_alloc(), the driver keeping ptr
Alloc ==
    /\ pc = "ready"
    /\ Cardinality(live) < MaxSlots
    /\ Install(stack_alloc(Ctx))
    /\ call' = StackAlloc
    /\ pre_ctx' = Ctx
    /\ UNCHANGED <<vmvars, pc, inits, calls, pre, todo>>

\* drop(ptr) of a Ptr the driver keeps
Release ==
    /\ pc = "ready"
    /\ \E ptr \in live :
        /\ Install(drop(Ctx, ptr))
        /\ call' = Drop(ptr)
    /\ pre_ctx' = Ctx
    /\ UNCHANGED <<vmvars, pc, inits, calls, pre, todo>>

\* the names of the parameters of the driver's closure and of a nested one
ptr1 == 1001
inner1 == 1011

\* the closures the driver passes to with_stack_allocN, ptrN being the last
\* of its parameters
closures(ptrN) ==
    { <<>>,
      <<Set(ptr1, 1), Increment(ptrN)>>,
      <<Add(ptr1, ptrN)>>,
      <<Set(ptrN, 1), Copy(ptrN, ptr1)>>,
      <<WithStackAlloc2(inner1, <<Mov(ptrN, inner1 + 1)>>)>>,
      <<Set(ptr1, 1), WithStackAlloc(inner1, <<Add(inner1, inner1)>>), Clear(ptr1)>>,
      <<Increment(ptrN), Clone(ptrN)>> }

\* the driver makes one call of with_stack_allocN, among its own allocations
CallWithStackAlloc ==
    /\ calls = 0
    /\ \/ \E f \in closures(ptr1)     : Call(WithStackAlloc(ptr1, f))
       \/ \E f \in closures(ptr1 + 1) : Call(WithStackAlloc2(ptr1, f))
       \/ \E f \in closures(ptr1 + 2) : Call(WithStackAlloc3(ptr1, f))
       \/ \E f \in closures(ptr1 + 3) : Call(WithStackAlloc4(ptr1, f))
       \/ \E f \in closures(ptr1 + 4) : Call(WithStackAlloc5(ptr1, f))

\* a panic unwinds: the calls not yet made are skipped, the Ptrs of the
\* with_stack_alloc frames are dropped
Unwind ==
    /\ pc = "panic"
    /\ todo # <<>>
    /\ todo' = Tail(todo)
    /\ IF Head(todo).op = "drop"
       THEN Install(drop(Ctx, Head(todo).a))
       ELSE UNCHANGED ctxvars
    /\ UNCHANGED <<vmvars, pc, drivervars>>

\* with_stack_allocN returned to the driver
ScopeReturned ==
    /\ pc = "emit"
    /\ todo = <<>>
    /\ pc' = "ready"
    /\ UNCHANGED <<ctxvars, vmvars, drivervars, todo>>

NextAlloc ==
    \/ Alloc
    \/ Release
    \/ CallWithStackAlloc
    \/ EmitStep
    \/ Unwind
    \/ ScopeReturned

SpecAlloc == InitAlloc /\ [][NextAlloc]_vars

(* The translator's driver: `let x = ..` and `let y = ..` bind the first    *)
(* two cells; then statements `name = e` and `let z = e` are translated    *)
(* and run.                                                                *)

variables == <<<<"x", 0>>, <<"y", 1>>>>

\* Scope::root with these bindings
root == Scope(variables, None)

Atoms == {ExprConst(v) : v \in 0..MaxVal} \cup {ExprVar("x"), ExprVar("y")}

Operands == {ExprConst(1), ExprVar("x")}

Nested == {ExprSub(ExprVar("x"), ExprConst(1)), ExprAdd(ExprConst(1), ExprVar("x"))}

Binary(S, T) ==
    UNION {{ExprAdd(a, b), ExprSub(a, b), ExprGt(a, b)} : a \in S, b \in T}

Exprs ==
    Atoms \cup Binary(Atoms, Atoms)
          \cup Binary(Nested, Operands)
          \cup Binary(Operands, Nested)

CallAssign == \E e \in Exprs : Call(Assign(root, "y", e))

CallDecl == \E e \in Exprs : Call(Decl(root, "z", e))

NextTrans ==
    \/ AllocSet(1, 1, {0})
    \/ AllocIncrementBy(1, 1, {MaxVal})
    \/ AllocSet(2, 2, {0})
    \/ AllocIncrementBy(2, 2, {1})
    \/ Run(2)
    \/ VMStep
    \/ Returned
    \/ EmitStep
    \/ RunTest
    \/ CallAssign
    \/ CallDecl

SpecTrans == Init /\ [][NextTrans]_vars

(* `if e { body }` and `while e { body }` over the variables x and y.      *)

\* y = y + 1
count_y == StmtAssign("y", ExprAdd(ExprVar("y"), ExprConst(1)))

\* the conditions of the if statements
Conds ==
    {ExprVar("x"), ExprAdd(ExprVar("x"), ExprConst(1)), ExprGt(ExprVar("x"), ExprConst(1))}
    \cup {ExprConst(v) : v \in 0..MaxVal}

CallIfStmt ==
    \E e \in Conds :
        \E body \in {<<count_y>>,
                      <<StmtDecl("z", Some(ExprConst(1))),
                        StmtAssign("y", ExprAdd(ExprVar("y"), ExprVar("z")))>>} :
            Call(If(root, e, body))

\* the loops: x counts down, or is cleared, and y counts the executions
CallWhileStmt ==
    \E e \in {ExprVar("x"), ExprGt(ExprVar("x"), ExprConst(0)),
               ExprGt(ExprVar("x"), ExprConst(1)), ExprConst(0)} :
        \E body \in {<<StmtAssign("x", ExprSub(ExprVar("x"), ExprConst(1))), count_y>>,
                      <<count_y, StmtAssign("x", ExprConst(0))>>} :
            Call(While(root, e, body))

NextStmtWhile ==
    \/ AllocSet(1, 1, 0..MaxVal)
    \/ AllocIncrementBy(1, 1, 0..MaxVal)
    \/ AllocSet(2, 2, {0})
    \/ AllocIncrementBy(2, 2, {1})
    \/ Run(2)
    \/ VMStep
    \/ Returned
    \/ EmitStep
    \/ RunTest
    \/ CallWhileStmt

SpecStmtWhile == Init /\ [][NextStmtWhile]_vars

\* add, sub, mul on every pair of three cells and and, or, nor, xor on every
\* triple, the cells of a call distinct or not
CallBinary ==
    \E target \in live : \E source \in live :
        \/ Call(Add(target, source))
        \/ Call(Sub(target, source))
        \/ Call(Mul(target, source))

CallTernary ==
    \E a \in live : \E b \in live : \E target \in live :
        \/ Call(And(a, b, target))
        \/ Call(Or(a, b, target))
        \/ Call(Nor(a, b, target))
        \/ Call(Xor(a, b, target))

NextAssert ==
    \/ AllocSet(1, 3, {1})
    \/ AllocIncrementBy(1, 3, {1})
    \/ Run(3)
    \/ VMStep
    \/ Returned
    \/ EmitStep
    \/ RunTest
    \/ CallBinary
    \/ CallTernary

SpecAssert == Init /\ [][NextAssert]_vars

\* programs given to the VM as they are: a prefix that leaves 0, 1 or 2 in
\* cell 0, then a byte that is not an operation, alone or in a loop, then more
Texts ==
    {pre_ \o mid \o post :
        pre_ \in {<<>>, <<"+">>, <<"+", "+">>},
        mid \in {<<>>, <<"x">>, <<" ">>, <<"[", "x", "-", "]">>, <<"[", "-", "\n", "]">>,
                 <<"[", "[", "x", "]", "-", "]">>, <<"[", "-", "]">>},
        post \in {<<>>, <<">", "+", "<">>, <<"\n">>, <<".">>}}

\* VM::new().run(text)
RunText ==
    /\ pc = "setup"
    /\ inits = <<>>
    /\ \E text \in Texts :
           /\ code' = text
           /\ call' = K("run", 0, 0, 0, text)
    /\ pc' = "run"
    /\ ip' = 0
    /\ op_count' = 0
    /\ UNCHANGED <<addr, stack_pointers, known_values, wrapped, panicked,
                   mem, loop_stack, dp, unclosed_brackets, todo, inits, calls, pre, pre_ctx>>

\* the text without the bytes that are not operations
strip(text) == SelectSeq(text, LAMBDA b : b \in Operations)

\* VM::new().run(strip(text)) after the run of text has returned; the tape
\* and the data pointer of that run are kept in pre and call.a
RunStripped ==
    /\ pc = "ready"
    /\ call.op = "run"
    /\ code' = strip(code)
    /\ call' = [call EXCEPT !.a = dp]
    /\ pre' = mem
    /\ mem' = VM_new_mem
    /\ loop_stack' = <<>>
    /\ dp' = 0
    /\ ip' = 0
    /\ op_count' = 0
    /\ pc' = "test"
    /\ UNCHANGED <<addr, stack_pointers, known_values, wrapped, panicked,
                   unclosed_brackets, todo, inits, calls, pre_ctx>>

NextVM ==
    \/ RunText
    \/ VMStep
    \/ ignored
    \/ unimplemented
    \/ Returned
    \/ RunStripped

SpecVM == Init /\ [][NextVM]_vars

\* increment, decrement, increment_by(p, n), decrement_by(p, n), and clear
CallStep ==
    \E p \in live :
        \/ Call(Increment(p))
        \/ Call(Decrement(p))
        \/ \E n \in Vals : Call(IncrementBy(p, n)) \/ Call(DecrementBy(p, n))
        \/ Call(Clear(p))

NextKnown ==
    \/ AllocSet(1, 1, Vals)
    \/ AllocIncrementBy(1, 1, Vals)
    \/ AllocSet(2, 2, {U8Max})
    \/ Run(2)
    \/ VMStep
    \/ Returned
    \/ EmitStep
    \/ overflow
    \/ RunTest
    \/ Again
    \/ CallStep

SpecKnown == Init /\ [][NextKnown]_vars

\* and, or, xor, greater_than (a, b, 2) with a and b among the first two
\* cells, the same cell or not
CallOperands ==
    \E a \in {0, 1} : \E b \in {0, 1} :
        \/ Call(And(a, b, 2))
        \/ Call(Or(a, b, 2))
        \/ Call(Xor(a, b, 2))
        \/ Call(GreaterThan(a, b, 2))

NextOperands ==
    \/ AllocSet(1, 2, 0..MaxVal)
    \/ AllocIncrementBy(1, 2, 0..MaxVal)
    \/ AllocSet(3, 3, {0})
    \/ AllocIncrementBy(3, 3, {1})
    \/ Run(3)
    \/ VMStep
    \/ Returned
    \/ EmitStep
    \/ RunTest
    \/ CallOperands

SpecOperands == Init /\ [][NextOperands]_vars

\* the primitives that take a cell and a closure
Loops == {"while_not_zero", "repeat_reverse_destructive", "repeat_reverse", "iff",
          "iff_destructive", "if_not", "if_not_destructive"}

\* op(ptr, f); the closure of while_not_zero also clears ptr
loop(op, ptr, f) ==
    K(op, ptr, 0, 0, IF op = "while_not_zero" THEN f \o <<Clear(ptr)>> ELSE f)

\* a primitive on cell 0 whose closure calls a primitive on cell 1, whose
\* closure increments cell 2; if_else with a loop in each branch
\* the primitives whose cell is to hold a boolean
Conditionals == {"if_not", "if_not_destructive", "if_else"}

boolean(op, ptr) == op \in Conditionals => cell(mem, ptr) \in Bools

CallNested ==
    \/ \E outer \in Loops : \E inner \in Loops :
           /\ boolean(outer, 0)
           /\ boolean(inner, 1)
           /\ Call(loop(outer, 0, <<loop(inner, 1, <<Increment(2)>>)>>))
    \/ \E f \in Loops : \E g \in Loops :
           /\ boolean("if_else", 0)
           /\ boolean(f, 1)
           /\ boolean(g, 1)
           /\ Call(IfElse(0, <<loop(f, 1, <<Increment(2)>>)>>, <<loop(g, 1, <<Increment(2)>>)>>))

\* while and if statements, one in the body of the other
CallNestedStmt ==
    \/ \E e \in {ExprVar("y"), ExprGt(ExprVar("y"), ExprConst(1))} :
           Call(While(root, ExprVar("x"),
                      <<StmtIf(e, <<StmtAssign("y", ExprSub(ExprVar("y"), ExprConst(1)))>>),
                        StmtAssign("x", ExprSub(ExprVar("x"), ExprConst(1)))>>))
    \/ \E e \in {ExprVar("x"), ExprConst(1)} :
           Call(If(root, e,
                   <<StmtWhile(ExprVar("y"),
                               <<StmtAssign("y", ExprSub(ExprVar("y"), ExprConst(1)))>>)>>))

NextLoops ==
    \/ AllocIncrementBy(1, 2, 0..MaxVal)
    \/ AllocSet(3, 3, {0})
    \/ Run(3)
    \/ VMStep
    \/ Returned
    \/ EmitStep
    \/ RunTest
    \/ CallNested
    \/ CallNestedStmt

SpecLoops == Init /\ [][NextLoops]_vars

\* programs around the names z and w: declarations before a block, a block
\* that declares and uses them, uses after the block; y is the first variable
decl_y == StmtDecl("y", Some(ExprConst(0)))

Before ==
    {<<>>,
     <<StmtDecl("z", Some(ExprConst(1)))>>,
     <<StmtDecl("z", Some(ExprConst(1))), StmtDecl("z", Some(ExprConst(2)))>>,
     <<StmtDecl("z", Some(ExprConst(1))), StmtDecl("z", Some(ExprVar("z")))>>,
     <<StmtDecl("w", Some(ExprConst(2))), StmtDecl("z", Some(ExprVar("w")))>>}

Blocks ==
    {<<>>} \cup
    UNION {{<<StmtIf(c, <<StmtDecl("z", Some(ExprConst(3)))>>)>>,
            <<StmtIf(c, <<StmtDecl("z", Some(ExprConst(3))), StmtAssign("y", ExprVar("z"))>>)>>,
            <<StmtIf(c, <<StmtAssign("z", ExprConst(3))>>)>>,
            <<StmtIf(c, <<StmtDecl("w", Some(ExprConst(3))),
                          StmtIf(c, <<StmtDecl("z", Some(ExprConst(4)))>>),
                          StmtAssign("y", ExprAdd(ExprVar("w"), ExprVar("z")))>>)>>}
           : c \in {ExprConst(0), ExprConst(1)}}

After ==
    {<<>>,
     <<StmtAssign("y", ExprVar("z"))>>,
     <<StmtAssign("y", ExprVar("w"))>>,
     <<StmtAssign("y", ExprAdd(ExprVar("z"), ExprVar("w")))>>}

Programs == {<<decl_y>> \o b \o i \o a : b \in Before, i \in Blocks, a \in After}

\* trans(ir) for the programs
CallTrans == \E stmts \in Programs : Call(Trans(stmts))

NextScope ==
    \/ Run(0)
    \/ VMStep
    \/ Returned
    \/ EmitStep
    \/ Fail
    \/ RunTest
    \/ CallTrans

SpecScope == Init /\ [][NextScope]_vars

\* the values added: constants, variables (the target among them), sums and
\* comparisons
Addends ==
    {ExprConst(1), ExprConst(U8Max), ExprVar("x"), ExprVar("y"),
     ExprAdd(ExprVar("x"), ExprConst(1)), ExprSub(ExprVar("x"), ExprConst(1)),
     ExprGt(ExprConst(1), ExprConst(0)), ExprGt(ExprVar("x"), ExprVar("y"))}

CallAddAssign == \E name \in {"x", "y"} : \E e \in Addends : Call(AddAssign(root, name, e))

\* an assignment of a comparison before the `+=`
CallAssignGt ==
    /\ calls = 0
    /\ \E e \in {ExprGt(ExprConst(1), ExprConst(0)), ExprGt(ExprVar("x"), ExprConst(0))} :
           Call(Assign(root, "y", e))

\* the `+=` follows the assignment
NextStatement == Again /\ call.op = "assign"

NextAddAssign ==
    \/ AllocSet(1, 1, 0..MaxVal)
    \/ AllocIncrementBy(1, 1, 0..MaxVal)
    \/ AllocSet(2, 2, {0})
    \/ AllocIncrementBy(2, 2, {1})
    \/ Run(2)
    \/ VMStep
    \/ Returned
    \/ EmitStep
    \/ RunTest
    \/ NextStatement
    \/ CallAssignGt
    \/ CallAddAssign

SpecAddAssign == Init /\ [][NextAddAssign]_vars

NextStmtIf ==
    \/ AllocSet(1, 1, 0..MaxVal)
    \/ AllocIncrementBy(1, 1, 0..MaxVal)
    \/ AllocSet(2, 2, {0})
    \/ AllocIncrementBy(2, 2, {1})
    \/ Run(2)
    \/ VMStep
    \/ Returned
    \/ EmitStep
    \/ RunTest
    \/ CallIfStmt

SpecStmtIf == Init /\ [][NextStmtIf]_vars

CallSet == \E p \in live : \E v \in Bools : Call(Set(p, v))

CallSetBool == \E p \in live : \E b \in BOOLEAN : Call(SetBool(p, b))

CallClear == \E p \in live : Call(Clear(p))

\* xor(a, b, target) with a and b among the first two cells and target the third
CallXor == \E a \in {0, 1} : \E b \in {0, 1} : Call(Xor(a, b, 2))

NextXor ==
    \/ AllocSet(1, 3, Bools)
    \/ AllocIncrementBy(1, 3, Bools)
    \/ Run(3)
    \/ VMStep
    \/ Returned
    \/ EmitStep
    \/ RunTest
    \/ CallXor

SpecXor == Init /\ [][NextXor]_vars

\* set(p, v) for every value v of the model
CallSetTo == \E p \in live : \E v \in Vals : Call(Set(p, v))

\* the single-cell primitives on two cells of known or unknown value
NextCell ==
    \/ AllocSet(1, 2, 0..MaxVal)
    \/ AllocIncrementBy(1, 2, 0..MaxVal)
    \/ Run(2)
    \/ VMStep
    \/ Returned
    \/ EmitStep
    \/ RunTest
    \/ CallSetBool
    \/ CallSetTo
    \/ CallClear

SpecCell == Init /\ [][NextCell]_vars

CallIncrement == \E p \in live : Call(Increment(p))

CallDecrement == \E p \in live : Call(Decrement(p))

CallOrAssign == \E s \in live : \E t \in live \ {s} : Call(OrAssign(s, t))

\* ctx.while_not_zero(p, |ctx| { ctx.set(q, 1); ctx.clear(p) })
CallWhileNotZero ==
    \E p \in live : \E q \in live \ {p} : Call(WhileNotZero(p, <<Set(q, 1), Clear(p)>>))

\* ctx.iff(cond, |ctx| ctx.set(q, 1))
CallIff == \E cond \in live : \E q \in live \ {cond} : Call(Iff(cond, <<Set(q, 1)>>))

----------------------------------------------------------------------------
(* VM::run as a function of the VM: a whole call of run as one step, for the
   runs that are too long to be followed one operation at a time *)

\* the VM as a value: its fields, the counter of the scan of loop_start and
\* the position of the driver
VM ==
    [mem |-> mem, loop_stack |-> loop_stack, ip |-> ip, dp |-> dp,
     op_count |-> op_count, unclosed_brackets |-> unclosed_brackets, pc |-> pc]

\* VM::run, the loop condition, on the VM v
vm_running(v) == v.pc \in {"run", "test"} /\ v.ip < Len(code)

\* VM::run, after the match: op_count += 1; assert!(op_count <= MAX_STEPS)
vm_counted(v) ==
    [v EXCEPT !.op_count = @ + 1,
              !.pc = IF v.op_count + 1 > MAX_STEPS THEN "panic" ELSE @]

\* one iteration of the scan of loop_start, as loop_scan
vm_loop_scan(v) ==
    IF v.ip + 1 >= Len(code)
    THEN [v EXCEPT !.pc = "panic"]
    ELSE LET b == code[v.ip + 2]
             u == IF b = "[" THEN v.unclosed_brackets + 1
                  ELSE IF b = "]" THEN v.unclosed_brackets - 1
                  ELSE v.unclosed_brackets
         IN IF u > 0
            THEN [v EXCEPT !.unclosed_brackets = u, !.ip = @ + 1]
            ELSE vm_counted([v EXCEPT !.unclosed_brackets = u, !.ip = @ + 2])

\* one iteration of the loop of VM::run on a VM v that is running: the match
\* on the byte under ip as in left, right, vm_increment, vm_decrement,
\* loop_start, loop_end, unimplemented and the arm `_ => {}`, then the count.
\* (x :> y) @@ m is store(m, x, y)
vm_iteration(v) ==
    LET b == code[v.ip + 1] IN
    IF v.unclosed_brackets > 0 THEN vm_loop_scan(v)
    ELSE IF b = "<"
    THEN vm_counted([v EXCEPT !.dp = (@ + MEM_SIZE - 1) % MEM_SIZE, !.ip = @ + 1])
    ELSE IF b = ">"
    THEN vm_counted([v EXCEPT !.dp = (@ + 1) % MEM_SIZE, !.ip = @ + 1])
    ELSE IF b = "+"
    THEN vm_counted([v EXCEPT !.mem = (v.dp :> wrapping(cell(@, v.dp) + 1)) @@ @,
                              !.ip = @ + 1])
    ELSE IF b = "-"
    THEN vm_counted([v EXCEPT
                        !.mem = (v.dp :> wrapping(cell(@, v.dp) + U8Modulus - 1)) @@ @,
                        !.ip = @ + 1])
    ELSE IF b = "["
    THEN IF cell(v.mem, v.dp) # 0
         THEN vm_counted([v EXCEPT !.loop_stack = Append(@, v.ip), !.ip = @ + 1])
         ELSE [v EXCEPT !.unclosed_brackets = 1]
    ELSE IF b = "]"
    THEN IF v.loop_stack = <<>>
         THEN [v EXCEPT !.pc = "panic"]
         ELSE vm_counted([v EXCEPT !.ip = v.loop_stack[Len(v.loop_stack)],
                                   !.loop_stack = SubSeq(@, 1, Len(@) - 1)])
    ELSE IF b \in {".", ","} THEN [v EXCEPT !.pc = "panic"]
    ELSE vm_counted(v)

\* the VM after n iterations from v, or fewer when the loop of run ends
RECURSIVE vm_iterations(_, _)
vm_iterations(v, n) ==
    IF ~vm_running(v) THEN v
    ELSE IF n <= 1 THEN vm_iteration(v)
    ELSE LET half == vm_iterations(v, n \div 2) IN vm_iterations(half, n - (n \div 2))

\* VM::run from v to its end: the end of the code or a panic
RECURSIVE vm_run(_)
vm_run(v) == IF vm_running(v) THEN vm_run(vm_iterations(v, MAX_STEPS)) ELSE v

\* vm.run(code), the whole call as one step
VMRun ==
    /\ running
    /\ \E v \in {vm_run(VM)} :
        /\ mem' = v.mem
        /\ loop_stack' = v.loop_stack
        /\ ip' = v.ip
        /\ dp' = v.dp
        /\ op_count' = v.op_count
        /\ unclosed_brackets' = v.unclosed_brackets
        /\ pc' = v.pc
    /\ UNCHANGED <<ctxvars, drivervars, todo>>

\* VMRun is VMStep repeated: a step of the VM is an iteration of vm_iteration
VMStepIsIteration ==
    [][(VMStep \/ ignored \/ unimplemented)
          => /\ vm_running(VM)
             /\ <<mem, loop_stack, ip, dp, op_count, unclosed_brackets, pc>>'
                   = LET v == vm_iteration(VM)
                     IN <<v.mem, v.loop_stack, v.ip, v.dp, v.op_count,
                          v.unclosed_brackets, v.pc>>]_vars

\* the twelve primitives on the first cell, the second cell and, for the
\* primitives with a target of their own, the third cell
CallPrimitive ==
    \E k \in {Add(0, 1), Sub(0, 1), Mul(0, 1), Mov(0, 1), Copy(0, 1), Not(0),
              IsZero(0, 1), Equals(0, 1, 2), GreaterThan(0, 1, 2), And(0, 1, 2),
              Or(0, 1, 2), Nor(0, 1, 2)} : Call(k)

\* one primitive on cells of 0..MaxVal and 255, known or not, each run of the
\* VM being one step
NextRun ==
    \/ AllocSet(1, 2, 0..MaxVal)
    \/ AllocIncrementBy(1, 2, Vals)
    \/ AllocSet(3, 3, {0})
    \/ AllocIncrementBy(3, 3, {U8Max})
    \/ Run(3)
    \/ VMRun
    \/ Returned
    \/ EmitStep
    \/ RunTest
    \/ CallPrimitive

SpecRun == Init /\ [][NextRun]_vars

\* sequences of up to MaxCalls primitives on two cells
Next ==
    \/ AllocSet(1, 2, Bools)
    \/ AllocIncrementBy(1, 2, Bools)
    \/ Run(2)
    \/ VMStep
    \/ Returned
    \/ EmitStep
    \/ RunTest
    \/ Again
    \/ CallSet
    \/ CallSetBool
    \/ CallClear
    \/ CallIncrement
    \/ CallDecrement
    \/ CallAdd
    \/ CallMov
    \/ CallNot
    \/ CallIsZeroDestructive
    \/ CallOrAssign
    \/ CallWhileNotZero
    \/ CallIff

Spec == Init /\ [][Next]_vars

----------------------------------------------------------------------------
(* Claims *)

\* C1: known-value soundness.  After any sequence of Context primitives, when
\* the VM has run the code emitted so far from an all-zero tape, every address
\* whose known value is Some(v) holds v.
C1_KnownValueSoundness ==
    pc \in {"ready", "done"} =>
        \A A \in 0..(Len(known_values) - 1) :
            value(Ctx, A) # None => cell(mem, A) = value(Ctx, A)[1]

\* C2: for all initial values t, s of two distinct cells, the code of
\* add(target, source) leaves source = 0 and target = (t + s) mod 256, and the
\* code of sub(target, source) leaves source = 0 and target = (t - s) mod 256.
C2_AddSub ==
    (pc = "done" /\ call.op \in {"add", "sub"}) =>
        LET target == call.a
            source == call.b
        IN /\ cell(mem, source) = 0
           /\ cell(mem, target) =
                 IF call.op = "add"
                 THEN (cell(pre, target) + cell(pre, source)) % 256
                 ELSE (cell(pre, target) - cell(pre, source)) % 256

\* C2 happens: an add whose sum wrapped around has run to its end
C2_Witness ==
    /\ pc = "done"
    /\ call.op = "add"
    /\ cell(pre, call.a) + cell(pre, call.b) > U8Max
    /\ cell(pre, call.b) > 0

\* C3: for all initial values t, s of two distinct cells, the code of
\* mul(target, source) leaves target = (t * s) mod 256 and source = s.
C3_Mul ==
    (pc = "done" /\ call.op = "mul") =>
        LET target == call.a
            source == call.b
        IN /\ cell(mem, target) = (cell(pre, target) * cell(pre, source)) % 256
           /\ cell(mem, source) = cell(pre, source)

\* C3 happens: a mul whose product wrapped around has run to its end
C3_Witness ==
    /\ pc = "done"
    /\ call.op = "mul"
    /\ cell(pre, call.a) * cell(pre, call.b) > U8Max

\* C4: for every initial value a of source and any initial value and known value
\* of target, the code of copy(source, target) on distinct cells leaves
\* target = a and source = a; copy with source = target emits no byte and
\* changes no state.
C4_Copy ==
    (call.op = "copy" /\ pc \in {"emit", "test", "done"}) =>
        LET source == call.a
            target == call.b
        IN IF source = target
           THEN Ctx = pre_ctx /\ mem = pre
           ELSE pc = "done" =>
                   /\ cell(mem, target) = cell(pre, source)
                   /\ cell(mem, source) = cell(pre, source)

\* C4 happens: a copy of 255 onto a non-zero target of known value has run
C4_Witness ==
    /\ pc = "done"
    /\ call.op = "copy"
    /\ call.a # call.b
    /\ cell(pre, call.a) = U8Max
    /\ cell(pre, call.b) # 0
    /\ value(pre_ctx, call.b) # None

\* C5: for every initial value a of source and any initial value and known value
\* of target, the code of mov(source, target) on distinct cells leaves
\* source = 0 and target = a; mov with source = target emits no byte and
\* changes no state.
C5_Mov ==
    (call.op = "mov" /\ pc \in {"emit", "test", "done"}) =>
        LET source == call.a
            target == call.b
        IN IF source = target
           THEN Ctx = pre_ctx /\ mem = pre
           ELSE pc = "done" =>
                   /\ cell(mem, target) = cell(pre, source)
                   /\ cell(mem, source) = 0

\* C5 happens: a mov of a non-zero value onto a non-zero target has run
C5_Witness ==
    /\ pc = "done"
    /\ call.op = "mov"
    /\ call.a # call.b
    /\ cell(pre, call.a) # 0
    /\ cell(pre, call.b) # 0
    /\ cell(pre, call.a) # cell(pre, call.b)

\* C6: for all a, b and every known-value state of a, b and target, the code
\* of greater_than(a, b, target) leaves target = 1 if a > b and 0 otherwise.
C6_GreaterThan ==
    (pc = "done" /\ call.op = "greater_than") =>
        cell(mem, call.t) = bool_as_u8(cell(pre, call.a) > cell(pre, call.b))

\* C7: for all a, b the code of equals(a, b, target) leaves target = 1 if
\* a = b and 0 otherwise, and the code of equals_assign(source, target) leaves
\* target = 1 if the initial source and target were equal and 0 otherwise.
C7_Equals ==
    /\ (pc = "done" /\ call.op = "equals") =>
           cell(mem, call.t) = bool_as_u8(cell(pre, call.a) = cell(pre, call.b))
    /\ (pc = "done" /\ call.op = "equals_assign") =>
           cell(mem, call.b) = bool_as_u8(cell(pre, call.a) = cell(pre, call.b))

\* C7 happens: an equals whose subtraction wrapped around (a > b) has run
C7_Witness ==
    /\ pc = "done"
    /\ call.op = "equals"
    /\ cell(pre, call.a) > cell(pre, call.b)
    /\ cell(pre, call.b) > 0
    /\ cell(mem, call.t) = 0

\* C8: for every initial value a of v and every known-value state of the slot
\* the primitive allocates, the code of is_zero_destructive(v) leaves v = 1 if
\* a = 0 and v = 0 otherwise; is_zero(source, target) leaves target with that
\* result for the value of source.
C8_IsZero ==
    /\ (pc = "done" /\ call.op = "is_zero_destructive") =>
           cell(mem, call.a) = bool_as_u8(cell(pre, call.a) = 0)
    /\ (pc = "done" /\ call.op = "is_zero") =>
           cell(mem, call.b) = bool_as_u8(cell(pre, call.a) = 0)

\* C9: for c in {0, 1} the code of not(c) leaves c = 1 - c.
C9_Not ==
    (pc = "done" /\ call.op = "not" /\ cell(pre, call.a) \in Bools) =>
        cell(mem, call.a) = 1 - cell(pre, call.a)

\* C9 happens: not has run on a cell that held 1
C9_Witness ==
    /\ pc = "done"
    /\ call.op = "not"
    /\ cell(pre, call.a) = 1
    /\ cell(mem, call.a) = 0

\* C10: for all a, b in {0, 1} held in cells distinct from target, the code of
\* and, or, nor (a, b, target) leaves target = a AND b, a OR b, NOT (a OR b).
C10_AndOrNor ==
    (/\ pc = "done"
     /\ call.op \in {"and", "or", "nor"}
     /\ cell(pre, call.a) \in Bools
     /\ cell(pre, call.b) \in Bools) =>
        LET a == cell(pre, call.a) = 1
            b == cell(pre, call.b) = 1
        IN cell(mem, call.t) =
              CASE call.op = "and" -> bool_as_u8(a /\ b)
                [] call.op = "or"  -> bool_as_u8(a \/ b)
                [] call.op = "nor" -> bool_as_u8(~(a \/ b))

\* C10 happens: or has run on two distinct cells holding 0 and 1
C10_Witness ==
    /\ pc = "done"
    /\ call.op = "or"
    /\ call.a # call.b
    /\ cell(pre, call.a) = 0
    /\ cell(pre, call.b) = 1
    /\ cell(mem, call.t) = 1

\* C11: for all a, b in {0, 1} held in cells distinct from target, the code of
\* xor(a, b, target) leaves target = a XOR b: 1 exactly when a and b differ.
C11_Xor ==
    (pc = "done" /\ call.op = "xor") =>
        cell(mem, call.t) = bool_as_u8(cell(pre, call.a) # cell(pre, call.b))

\* the bytes the last call emitted
emitted == SubSeq(code, Len(pre_ctx.code) + 1, Len(code))

\* the bytes that move the cursor from address from to address to
seek_bytes(from, to) == [i \in 1..abs(to - from) |-> IF to > from THEN ">" ELSE "<"]

\* C12: for every cell p, every b and every known value of p, after
\* set_bool(p, b) the cell holds 1 if b else 0 and that is the known value
\* of p; the one-byte shortcut is taken only when p is known 0 and b is true
\* (one `+`) or p is known 1 and b is false (one `-`), and otherwise
\* set(p, b ? 1 : 0) is used.
C12_SetBool ==
    (pc = "done" /\ call.op = "set_bool") =>
        LET p == call.a
            b == call.b
            known == value(pre_ctx, p)
        IN /\ cell(mem, p) = b
           /\ value(Ctx, p) = Some(b)
           /\ emitted =
                 IF known = Some(0) /\ b = 1 THEN seek_bytes(pre_ctx.addr, p) \o <<"+">>
                 ELSE IF known = Some(1) /\ b = 0 THEN seek_bytes(pre_ctx.addr, p) \o <<"-">>
                 ELSE IF known = Some(b) THEN <<>>
                 ELSE seek_bytes(pre_ctx.addr, p)
                      \o (IF known = Some(0) THEN <<>> ELSE <<"[", "-", "]">>)
                      \o repeat("+", b)

\* C13: set(p, v) emits nothing when the known value of p is v; otherwise it
\* seeks to p and emits `[-]` (omitted when p is known 0) followed by exactly v
\* copies of `+`; the cell holds v and the known value of p is v afterwards.
\* clear(p) emits nothing when p is known 0, else seek and `[-]`, and leaves p
\* known 0 (and the cell 0).
C13_SetClear ==
    /\ (pc = "done" /\ call.op = "set") =>
           LET p == call.a
               v == call.b
               known == value(pre_ctx, p)
           IN /\ cell(mem, p) = v
              /\ value(Ctx, p) = Some(v)
              /\ emitted =
                    IF known = Some(v) THEN <<>>
                    ELSE seek_bytes(pre_ctx.addr, p)
                         \o (IF known = Some(0) THEN <<>> ELSE <<"[", "-", "]">>)
                         \o repeat("+", v)
    /\ (pc = "done" /\ call.op = "clear") =>
           LET p == call.a
               known == value(pre_ctx, p)
           IN /\ cell(mem, p) = 0
              /\ value(Ctx, p) = Some(0)
              /\ emitted =
                    IF known = Some(0) THEN <<>>
                    ELSE seek_bytes(pre_ctx.addr, p) \o <<"[", "-", "]">>

\* C13 happens: set(p, v) has run on a cell away from the cursor whose value
\* was known, neither 0 nor v, with v the top value
C13_Witness ==
    /\ pc = "done"
    /\ call.op = "set"
    /\ call.b = U8Max
    /\ value(pre_ctx, call.a) \notin {None, Some(0), Some(call.b)}
    /\ pre_ctx.addr # call.a

\* the number of bytes b in the code
count(b) == Cardinality({i \in 1..Len(code) : code[i] = b})

\* C14: seek(target) with the cursor at addr emits exactly |target - addr|
\* bytes, all `>` when target > addr and all `<` when target < addr, nothing
\* when target = addr, and leaves the cursor equal to target; after any
\* sequence of seeks the cursor equals the initial cursor plus the number of
\* `>` emitted minus the number of `<` emitted.
C14_Seek ==
    /\ (call.op = "seek" /\ pc \in {"test", "done"}) =>
           LET target == call.a
               from == pre_ctx.addr
           IN /\ Len(emitted) = abs(target - from)
              /\ \A i \in 1..Len(emitted) :
                     emitted[i] = IF target > from THEN ">" ELSE "<"
              /\ addr = target
    /\ (call.op \in {"seek", "none"} /\ inits # <<>> /\ inits[1].how = "with_addr"
        /\ pc \in {"ready", "test", "done"}) =>
           addr = inits[1].v + count(">") - count("<")

\* C14 happens: a second seek, to the left, after a first seek to the right
C14_Witness ==
    /\ pc = "done"
    /\ call.op = "seek"
    /\ calls = 2
    /\ call.a < pre_ctx.addr
    /\ count(">") > 0
    /\ count("<") = pre_ctx.addr - call.a

\* the cell the closure of the last call increments, when it increments one
body_cell == call.body[1].a

\* C15: repeat_reverse_destructive(counter, body) emits, at counter, `[` body
\* `-` `]`; when body does not change counter, running it executes body exactly
\* counter_initial times (zero times when counter is 0) and ends with
\* counter = 0.  The VM executes one `[` and, per execution of the body, the
\* bytes of the body, `-`, `]` and `[` again.
C15_RepeatReverseDestructive ==
    (call.op = "repeat_reverse_destructive" /\ pc \in {"test", "done"}) =>
        LET counter == call.a
            n == cell(pre, counter)
            to_counter == seek_bytes(pre_ctx.addr, counter)
            body == IF call.body = <<>> THEN <<>>
                    ELSE seek_bytes(counter, body_cell) \o <<"+">>
                         \o seek_bytes(body_cell, counter)
        IN /\ emitted = to_counter \o <<"[">> \o body \o <<"-", "]">>
           /\ pc = "done" =>
                 /\ cell(mem, counter) = 0
                 /\ op_count = Len(to_counter) + 1 + n * (Len(body) + 3)
                 /\ call.body # <<>> =>
                        cell(mem, body_cell) = (cell(pre, body_cell) + n) % 256

\* C15 happens: a body away from the counter has been executed 255 times
C15_Witness ==
    /\ pc = "done"
    /\ call.op = "repeat_reverse_destructive"
    /\ call.body # <<>>
    /\ cell(pre, call.a) = U8Max
    /\ cell(pre, call.body[1].a) > 0
    /\ pre_ctx.addr # call.a

\* C16: repeat_reverse(p, body), and iff(cond, body), preserves p: for every
\* initial value n of p the code executes body exactly n times and leaves
\* p = n when body does not write p; for cond in {0, 1} iff runs body once iff
\* cond is non-zero.  The body increments a cell q: q ends n above its
\* initial value, and once it is there no later step changes it.
C16_RepeatReverse ==
    /\ [](  (call.op \in {"repeat_reverse", "iff"} /\ pc = "done" /\ call.body # <<>>) =>
               /\ cell(mem, call.a) = cell(pre, call.a)
               /\ cell(mem, body_cell) = (cell(pre, body_cell) + cell(pre, call.a)) % 256)
    /\ [][ (/\ call.op \in {"repeat_reverse", "iff"}
            /\ pc = "test"
            /\ call.body # <<>>
            /\ cell(mem, body_cell) = (cell(pre, body_cell) + cell(pre, call.a)) % 256)
           => cell(mem', body_cell) = cell(mem, body_cell) ]_vars

\* C16 happens: repeat_reverse has run its body twice
C16_Witness ==
    /\ pc = "done"
    /\ call.op = "repeat_reverse"
    /\ cell(pre, call.a) = 2
    /\ cell(mem, call.a) = 2
    /\ cell(mem, call.body[1].a) = cell(pre, call.body[1].a) + 2

\* during the run of the last call the cell q changes at most once, and then
\* from its initial value to one above it
once(q) ==
    \/ cell(mem', q) = cell(mem, q)
    \/ /\ cell(mem, q) = cell(pre, q)
       /\ cell(mem', q) = (cell(pre, q) + 1) % 256

\* C17: for cond in {0, 1} the code of if_else(cond, f, g) executes exactly
\* one of the two branches exactly once: f when cond = 1 and g when cond = 0,
\* also when f itself changes cond; if_not(cond, body) executes body once iff
\* cond = 0.  f increments a cell qf, g a cell qg, body a cell q.
C17_IfElse ==
    /\ [](  (call.op = "if_else" /\ pc = "done") =>
               LET cond == cell(pre, call.a)
                   qf == call.body[1][1].a
                   qg == call.body[2][1].a
               IN /\ cell(mem, qf) = (cell(pre, qf) + cond) % 256
                  /\ cell(mem, qg) = (cell(pre, qg) + 1 - cond) % 256)
    /\ [](  (call.op = "if_not" /\ pc = "done") =>
               cell(mem, body_cell) =
                  (cell(pre, body_cell) + (IF cell(pre, call.a) = 0 THEN 1 ELSE 0)) % 256)
    /\ [][ (call.op = "if_else" /\ pc = "test") =>
              once(call.body[1][1].a) /\ once(call.body[2][1].a) ]_vars
    /\ [][ (call.op = "if_not" /\ pc = "test") => once(body_cell) ]_vars

\* C17 happens: if_else has run with cond = 1 and an f that clears cond
C17_Witness ==
    /\ pc = "done"
    /\ call.op = "if_else"
    /\ cell(pre, call.a) = 1
    /\ cell(mem, call.a) = 0
    /\ cell(mem, 1) = cell(pre, 1) + 1
    /\ cell(mem, 2) = cell(pre, 2)

\* the Ptrs of the with_stack_alloc frames that are open
frames == {i \in 1..Len(todo) : todo[i].op = "drop"}

\* some closure of f, f included, keeps a clone of a Ptr
RECURSIVE keeps(_)
keeps(f) ==
    \E i \in 1..Len(f) :
        \/ f[i].op = "clone"
        \/ IF f[i].op = "if_else"
           THEN keeps(f[i].body[1]) \/ keeps(f[i].body[2])
           ELSE keeps(f[i].body)

\* with_stack_allocN is over: it returned, or the panic of f has unwound
over == pc \in {"emit", "panic"} /\ todo = <<>>

\* the scoped release of with_stack_allocN, for the closures in F
scoped_release(kept) ==
    (call.op \in Scoped /\ pc \in {"emit", "panic"} /\ (kept \/ ~keeps(call.body))) =>
        /\ over => live = live_in(pre_ctx)
        /\ \A i \in frames :
              /\ todo[i].a \notin live_in(pre_ctx)
              /\ \A j \in frames : i # j => todo[i].a # todo[j].a
              /\ (pc = "panic" \/ Head(todo).op # "stack_alloc") => todo[i].a \in live

\* C18 as stated: for N in 1..5 and any closure f the live addresses after
\* with_stack_allocN(f) are those before the call, the N handles given to f
\* are pairwise distinct and were not live before, also when f aborts.
C18_AnyClosure == scoped_release(TRUE)

\* C18, amended: the same for every closure f that keeps no clone of a Ptr
C18_ScopedRelease == scoped_release(FALSE)

\* C18 happens: with_stack_alloc5 runs its closure with five Ptrs, one of
\* them in a slot the driver had freed below a live one
C18_Witness ==
    /\ call.op = "with_stack_alloc5"
    /\ pc = "emit"
    /\ Cardinality(frames) = 5
    /\ Len(todo) = 5 + Len(call.body)
    /\ call.body # <<>>
    /\ Head(todo).op = "add"
    /\ live_in(pre_ctx) = {1}
    /\ live = 0..5

\* C18 happens: the closure of a nested with_stack_alloc panicked and the
\* unwinding is over
C18_WitnessAbort ==
    /\ call.op = "with_stack_alloc3"
    /\ pc = "panic"
    /\ todo = <<>>
    /\ call.body # <<>>
    /\ call.body[Len(call.body)].op = "clear"
    /\ live_in(pre_ctx) = {1}

\* this step is a call of stack_alloc, by the driver or by a primitive
allocates ==
    \/ pc = "ready" /\ call' = StackAlloc /\ stack_pointers' # stack_pointers
    \/ /\ pc = "emit" /\ pc' = "emit"
       /\ todo # <<>>
       /\ Head(todo).op = "stack_alloc"
       /\ todo' = Tail(todo)

\* C19: after any sequence of allocations and releases stack_alloc returns
\* the lowest address whose slot is free and marks it live, or a new address
\* equal to the number of slots when every slot is live; it never returns
\* an address that is live; after the release of the handle at address A
\* with every lower slot live the next stack_alloc returns A.
C19_StackAlloc ==
    [][ allocates =>
          LET slots == 0..(Len(stack_pointers) - 1)
              free == slots \ live
              ret == CHOOSE a \in live' \ live : TRUE
          IN /\ Cardinality(live' \ live) = 1
             /\ live \subseteq live'
             /\ IF free # {}
                THEN /\ ret \in free
                     /\ \A a \in free : ret <= a
                     /\ Len(stack_pointers') = Len(stack_pointers)
                ELSE /\ ret = Len(stack_pointers)
                     /\ Len(stack_pointers') = Len(stack_pointers) + 1
             /\ (/\ call.op = "drop"
                 /\ call.a \notin live
                 /\ \A b \in 0..(call.a - 1) : b \in live) => ret = call.a ]_vars

\* C19 happens: the driver released the handle at 1 with 0 and 2 live, and
\* its next stack_alloc returned 1
C19_Witness ==
    /\ pc = "ready"
    /\ call = StackAlloc
    /\ live_in(pre_ctx) = {0, 2}
    /\ live = {0, 1, 2}

\* the u8 value of the expression expr in the memory m
RECURSIVE eval(_, _)
eval(expr, m) ==
    CASE expr.e = "Const" -> expr.v
      [] expr.e = "Var"   -> cell(m, resolve_var(variables, expr.name))
      [] expr.e = "Add"   -> (eval(expr.a, m) + eval(expr.b, m)) % 256
      [] expr.e = "Sub"   -> (eval(expr.a, m) - eval(expr.b, m) + 256) % 256
      [] expr.e = "Gt"    -> IF eval(expr.a, m) > eval(expr.b, m) THEN 1 ELSE 0

\* the cells of the variables that expr reads
RECURSIVE reads(_)
reads(expr) ==
    CASE expr.e = "Const" -> {}
      [] expr.e = "Var"   -> {resolve_var(variables, expr.name)}
      [] OTHER            -> reads(expr.a) \cup reads(expr.b)

\* the cell the last statement assigns
assigned ==
    IF call.op = "assign" THEN resolve_var(variables, call.a)
    ELSE stack_alloc_addr(pre_ctx)

\* C20: for every expression e built from constants, bound variables, Add,
\* Sub and Gt, the code that lowering e into a target cell emits leaves the
\* target equal to the u8 wrap-around value of e (Gt: 1 if strictly greater,
\* else 0; Expr::const_value(e) when e has no variable), whatever the target
\* and the temporaries held and were known to hold, and leaves every
\* variable read by e unchanged; so after `x = e` and `let x = e` the cell
\* bound to x holds the value of e.
C20_TransExpr ==
    (call.op \in {"assign", "decl"} /\ pc = "done") =>
        /\ cell(mem, assigned) = eval(call.body, pre)
        /\ const_value(call.body) # None =>
              cell(mem, assigned) = const_value(call.body)[1]
        /\ \A v \in reads(call.body) \ {assigned} : cell(mem, v) = cell(pre, v)

\* C20 happens: `let z = 1 + 2` has run and left 3 in the cell of z
C20_Witness ==
    /\ pc = "done"
    /\ call = Decl(root, "z", ExprAdd(ExprConst(1), ExprConst(2)))
    /\ cell(mem, 2) = 3

\* C23: `x += e` is lowered by resolving x, lowering e into a fresh temp and
\* add(handle, temp); after running the emitted code the cell bound to x holds
\* (x_old + value(e)) mod 256.
C23_AddAssign ==
    (call.op = "add_assign" /\ pc = "done") =>
        LET x == resolve_var(variables, call.a) IN
        cell(mem, x) = (cell(pre, x) + eval(call.body, pre)) % 256

\* a scope stack by value: a sequence of frames, the innermost last, each a
\* sequence of bindings <<name, value>> in the order of their insertion
binds(env, name) ==
    {p \in UNION {{<<k, i>> : i \in 1..Len(env[k])} : k \in 1..Len(env)} :
        env[p[1]][p[2]][1] = name}

\* the binding a name stands for: of the innermost frame that binds it the
\* most recently inserted one
visible(env, name) ==
    CHOOSE p \in binds(env, name) :
        \A q \in binds(env, name) : q[1] < p[1] \/ (q[1] = p[1] /\ q[2] <= p[2])

\* the names of an expression in the order of their lowering
RECURSIVE expr_names(_)
expr_names(expr) ==
    CASE expr.e = "Const" -> <<>>
      [] expr.e = "Var"   -> <<expr.name>>
      [] OTHER            -> expr_names(expr.a) \o expr_names(expr.b)

\* the first name of expr that env does not bind, if any
unbound_in(env, expr) ==
    LET names == expr_names(expr)
        bad == {i \in 1..Len(names) : binds(env, names[i]) = {}}
    IN IF bad = {} THEN None
       ELSE Some(names[CHOOSE i \in bad : \A j \in bad : i <= j])

declare(env, name, v) == [env EXCEPT ![Len(env)] = Append(@, <<name, v>>)]

\* the first use, in the order of the statements, of a name that no open
\* frame binds, if there is one
RECURSIVE first_unbound(_, _)
first_unbound(stmts, env) ==
    IF stmts = <<>> THEN None
    ELSE LET stmt == Head(stmts) IN
         CASE stmt.s = "Decl" ->
                LET inner == declare(env, stmt.name, 0)
                    u == IF stmt.value = None THEN None
                         ELSE unbound_in(inner, stmt.value[1])
                IN IF u # None THEN u ELSE first_unbound(Tail(stmts), inner)
           [] stmt.s = "Assign" ->
                IF binds(env, stmt.name) = {} THEN Some(stmt.name)
                ELSE LET u == unbound_in(env, stmt.value)
                     IN IF u # None THEN u ELSE first_unbound(Tail(stmts), env)
           [] stmt.s = "If" ->
                LET u == unbound_in(env, stmt.cond)
                    b == first_unbound(stmt.body, Append(env, <<>>))
                IN IF u # None THEN u
                   ELSE IF b # None THEN b
                   ELSE first_unbound(Tail(stmts), env)

\* the value of expr under the bindings of env
RECURSIVE value_of(_, _)
value_of(expr, env) ==
    CASE expr.e = "Const" -> expr.v
      [] expr.e = "Var"   -> LET p == visible(env, expr.name) IN env[p[1]][p[2]][2]
      [] expr.e = "Add"   -> (value_of(expr.a, env) + value_of(expr.b, env)) % 256

\* the bindings after the statements: a block opens a frame and closes it;
\* a variable declared as itself holds what its cell held, 0 in these programs
RECURSIVE interpret(_, _)
interpret(stmts, env) ==
    IF stmts = <<>> THEN env
    ELSE LET stmt == Head(stmts) IN
         CASE stmt.s = "Decl" ->
                LET inner == declare(env, stmt.name, 0)
                    p == <<Len(inner), Len(inner[Len(inner)])>>
                IN interpret(Tail(stmts),
                             [inner EXCEPT ![p[1]][p[2]][2] = value_of(stmt.value[1], inner)])
           [] stmt.s = "Assign" ->
                LET p == visible(env, stmt.name)
                IN interpret(Tail(stmts),
                             [env EXCEPT ![p[1]][p[2]][2] = value_of(stmt.value, env)])
           [] stmt.s = "If" ->
                LET inner == IF value_of(stmt.cond, env) # 0
                             THEN interpret(stmt.body, Append(env, <<>>))
                             ELSE Append(env, <<>>)
                IN interpret(Tail(stmts), SubSeq(inner, 1, Len(env)))

\* the text of the error of resolve_var
error_text(ident) == <<"Variable '", ident, "' does not exist in the current scope">>

\* what trans returned, once it has
result ==
    IF pc = "error" THEN [err |-> error_text(Head(todo).a)]
    ELSE IF pc \in {"test", "done"} THEN [ok |-> code]
    ELSE None

\* C24: a name stands for the most recently inserted binding of the innermost
\* frame that binds it: a later binding shadows an earlier one of its frame,
\* an inner frame shadows the outer ones, the bindings of a closed block are
\* gone.  A program is returned only when every name is bound where it is
\* used, and then its run leaves in y the value the bindings give; otherwise
\* lowering returns the error that names the first unbound name.
C24_Resolve ==
    (call.op = "trans" /\ result # None) =>
        LET u == first_unbound(call.body, <<<<>>>>) IN
        IF u # None
        THEN result = [err |-> error_text(u[1])]
        ELSE /\ pc \in {"test", "done"}
             /\ pc = "done" => cell(mem, 0) = interpret(call.body, <<<<>>>>)[1][1][2]

\* C24 happens: z is declared twice, then once more in a block that has
\* run and is closed, and y = z has left the second value in y
C24_Witness ==
    /\ pc = "done"
    /\ call.op = "trans"
    /\ call.body = <<decl_y,
                     StmtDecl("z", Some(ExprConst(1))),
                     StmtDecl("z", Some(ExprConst(2))),
                     StmtIf(ExprConst(1), <<StmtDecl("z", Some(ExprConst(3)))>>),
                     StmtAssign("y", ExprVar("z"))>>
    /\ cell(mem, 0) = 2

\* C24 happens: z was declared in a block only, and its use after the
\* block ended the lowering with the error for z
C24_WitnessError ==
    /\ pc = "error"
    /\ call.op = "trans"
    /\ call.body = <<decl_y,
                     StmtIf(ExprConst(1), <<StmtDecl("z", Some(ExprConst(3)))>>),
                     StmtAssign("y", ExprVar("z"))>>
    /\ result = [err |-> error_text("z")]

\* the number of bytes b among the first n bytes of the code
count_to(b, n) == Cardinality({i \in 1..n : code[i] = b})

\* the `[` that are open after the first n bytes of the code
depth(n) == count_to("[", n) - count_to("]", n)

balanced == depth(Len(code)) = 0 /\ \A n \in 0..Len(code) : depth(n) >= 0

\* C25: the code emitted by any composition of Context primitives and by any
\* lowered program has balanced, properly nested `[` and `]`; the VM that
\* runs it never is at a `]` with an empty loop stack and its scan for the
\* matching `]` never is at the last byte of the code.
C25_Balanced ==
    /\ (pc \in {"ready", "done"} \/ (pc = "test" /\ ip = 0)) => balanced
    /\ at("]") => loop_stack # <<>> /\ code[loop_stack[Len(loop_stack)] + 1] = "["
    /\ (running /\ unclosed_brackets > 0) =>
           /\ ip + 1 < Len(code)
           /\ unclosed_brackets <= depth(ip + 1)
    /\ pc # "panic"

\* C25 happens: the VM is at the `]` of an inner loop with two loops open
C25_Witness ==
    /\ pc = "test"
    /\ at("]")
    /\ Len(loop_stack) = 2
    /\ depth(ip) = 2

\* C25 happens: the scan for the `]` of a skipped loop is inside an inner loop
C25_WitnessScan ==
    /\ pc = "test"
    /\ unclosed_brackets = 2

\* the last call is one that assert_ne! is to refuse
refused ==
    \/ call.op \in {"add", "sub", "mul"} /\ call.a = call.b
    \/ call.op \in {"and", "or", "nor", "xor"} /\ (call.a = call.t \/ call.b = call.t)

\* C26: add, sub and mul called with source = target, and and, or, nor, xor
\* called with a = target or b = target, fail with an assertion before any
\* byte is emitted and before the cursor, the known values or the allocator
\* change: such a call never gets to run, and from the call to the failure
\* the Context is the one the call was made with.
C26_AssertFirst ==
    refused =>
        /\ pc \in {"emit", "panic"}
        /\ code = pre_ctx.code
        /\ addr = pre_ctx.addr
        /\ known_values = pre_ctx.known_values
        /\ stack_pointers = pre_ctx.stack_pointers
        /\ (pc = "emit") => todo \in {<<call>>, <<AssertNeFailed>>}
        /\ (pc = "panic") => panicked /\ todo = <<>>

\* C26 happens: or(a, b, target) with b = target has failed, with known and
\* unknown cells and the cursor away from 0
C26_Witness ==
    /\ pc = "panic"
    /\ call.op = "or"
    /\ call.a # call.t
    /\ call.b = call.t
    /\ addr # 0
    /\ \E p \in live : value(Ctx, p) = None
    /\ \E p \in live : value(Ctx, p) # None

\* C27: the VM ignores every byte that is not one of the eight operations:
\* it steps past it and changes nothing else, so a program with such bytes
\* ends with the tape and the data pointer of the program without them.
C27_IgnoresUnknown ==
    /\ [][ (/\ running
            /\ unclosed_brackets = 0
            /\ code[ip + 1] \notin Operations
            /\ op_count' # op_count)
           => (ip' = ip + 1 /\ mem' = mem /\ dp' = dp) ]_vars
    /\ []((pc = "done" /\ call.op = "run") => (mem = pre /\ dp = call.a))

\* the cursor of a Context that started at 0 after the first n bytes of the
\* code: seek moves it by one to the right with each `>`, to the left with
\* each `<`, and nothing else moves it
cursor(n) == count_to(">", n) - count_to("<", n)

\* C28: cursor soundness.  From cursor 0 and data pointer 0, for any
\* composition of primitives and any cell values, the cursor of the Context
\* is the one its bytes give, and whenever the VM is about to execute a byte
\* (on every iteration of every loop, and after a loop that was skipped) or
\* has returned, its data pointer equals, modulo the tape size, the cursor
\* the Context had when it emitted that byte; the cursor at a `]` is the
\* cursor at its matching `[`.
C28_CursorSound ==
    /\ addr = cursor(Len(code))
    /\ (pc \in {"run", "test", "ready", "done"} /\ unclosed_brackets = 0) =>
           dp = cursor(ip) % MEM_SIZE
    /\ at("]") => cursor(ip) = cursor(loop_stack[Len(loop_stack)])

\* C28 happens: the VM is back at the `]` of an inner loop, away from cell 0,
\* in the second iteration of the outer loop
C28_Witness ==
    /\ pc = "test"
    /\ at("]")
    /\ Len(loop_stack) = 2
    /\ dp # 0
    /\ cell(pre, 0) = 2
    /\ cell(mem, 0) = 1

\* C28 happens: the VM is past a loop that it skipped, away from cell 0
C28_WitnessSkipped ==
    /\ pc = "test"
    /\ ip > 0
    /\ ip < Len(code)
    /\ code[ip] = "]"
    /\ unclosed_brackets = 0
    /\ loop_stack = <<>>
    /\ dp # 0
    /\ cell(mem, dp) = 0
    /\ cell(pre, dp) = 0
    /\ Len(code) - ip > 10

\* C29: for every known value v and amount n in 0..255, increment,
\* decrement, increment_by(p, n) and decrement_by(p, n) complete without
\* failure and leave the known value (v + 1), (v - 1), (v + n), (v - n)
\* modulo 256, the overflow cases included, which is the value of the cell
\* after the run; an unknown value stays unknown.
C29_KnownWraps ==
    (call.op \in {"increment", "decrement", "increment_by", "decrement_by"}) =>
        LET p == call.a
            n == IF call.op \in {"increment", "decrement"} THEN 1 ELSE call.b
            known == value(pre_ctx, p)
        IN /\ pc # "panic"
           /\ (pc \in {"test", "done"}) =>
                  value(Ctx, p) =
                     IF known = None THEN None
                     ELSE IF call.op \in {"increment", "increment_by"}
                     THEN Some((known[1] + n) % 256)
                     ELSE Some((known[1] - n) % 256)
           /\ (pc = "done" /\ known # None) => cell(mem, p) = value(Ctx, p)[1]

\* C30: and(a, b, t), or(a, b, t), xor(a, b, t) and greater_than(a, b, t)
\* leave the cells a and b with their initial values, also when a and b are
\* the same cell, and change no allocated cell other than t.
C30_OperandsKept ==
    (pc = "done" /\ call.op \in {"and", "or", "xor", "greater_than"}) =>
        /\ cell(mem, call.a) = cell(pre, call.a)
        /\ cell(mem, call.b) = cell(pre, call.b)
        /\ \A p \in live \ {call.t} : cell(mem, p) = cell(pre, p)
        /\ live = live_in(pre_ctx)

\* C30 happens: greater_than(a, a, t) has run on a cell of unknown value 2,
\* with another cell holding 1 and t holding 1 before
C30_Witness ==
    /\ pc = "done"
    /\ call.op = "greater_than"
    /\ call.a = call.b
    /\ value(pre_ctx, call.a) = None
    /\ cell(pre, call.a) = 2
    /\ cell(pre, 1 - call.a) = 1
    /\ cell(pre, call.t) = 1
    /\ cell(mem, call.t) = 0

\* the VM is at the last byte of the code, the `]` that closes the statement
closing == at("]") /\ ip = Len(code) - 1

\* C21: the code emitted for `if e { body }` is a one-shot loop: for every
\* value of e it executes body exactly once when e is non-zero and never
\* when e is zero, and the condition temp is zero when the closing `]` is
\* reached.  The body adds 1 to y.
C21_IfOneShot ==
    call.op = "if" =>
        /\ pc = "done" =>
              cell(mem, 1) = (cell(pre, 1) + (IF eval(call.a, pre) # 0 THEN 1 ELSE 0)) % 256
        /\ (pc = "test" /\ closing) => cell(mem, dp) = 0

\* the memory after the assignments stmts, executed in the memory m
RECURSIVE exec(_, _)
exec(stmts, m) ==
    IF stmts = <<>> THEN m
    ELSE exec(Tail(stmts),
              store(m, resolve_var(variables, Head(stmts).name), eval(Head(stmts).value, m)))

\* the memory after `while e { body }` started in the memory m, the body
\* being executed at most n times
RECURSIVE while_loop(_, _, _, _)
while_loop(e, body, m, n) ==
    IF n = 0 \/ eval(e, m) = 0 THEN m
    ELSE while_loop(e, body, exec(body, m), n - 1)

\* C22: the code emitted for `while e { body }` evaluates e into a temp
\* before the first iteration and again after every execution of body,
\* executes body exactly as long as that evaluation is non-zero, and leaves
\* the loop at the first evaluation that yields 0.
C22_While ==
    call.op = "while" =>
        /\ pc = "done" =>
              LET m == while_loop(call.a, call.body, pre, U8Max) IN
              /\ cell(mem, 0) = cell(m, 0)
              /\ cell(mem, 1) = cell(m, 1)
        /\ (pc = "test" /\ closing) => cell(mem, dp) = eval(call.a, mem)

\* C22 happens: `while x { x = x - 1; y = y + 1 }` started with x = 2, an
\* unknown value, and has come to its end
C22_Witness ==
    /\ pc = "done"
    /\ call.op = "while"
    /\ call.a = ExprVar("x")
    /\ call.body[1].value.e = "Sub"
    /\ inits[1].how = "increment_by"
    /\ cell(pre, 0) = 2
    /\ cell(mem, 0) = 0
    /\ cell(mem, 1) = cell(pre, 1) + 2

\* C31: for all initial cell values in 0..255, booleans or not, running the
\* code emitted by each of add, sub, mul, mov, copy, not, is_zero, equals,
\* greater_than, and, or, nor on distinct cells reaches the end of the
\* stream: the run of the VM on the code of the primitive is not aborted, and
\* when it has returned ip is at the end of the code and no loop is open.
C31_EndOfStream ==
    calls > 0 =>
        /\ pc # "panic"
        /\ pc = "done" =>
              /\ ip = Len(code)
              /\ loop_stack = <<>>
              /\ unclosed_brackets = 0

====
